---- MODULE Spec2Model ----
(***************************************************************************)
(* Self-healing locator engine: the resolution cascade of                  *)
(* SelfHealingHelper (features/environment/self_healing.py), the           *)
(* prediction fallback LocatorPredictor                                    *)
(* (resources/locator_predict_model.py) and the offline maintenance tool   *)
(* (archive/utils/clean_db.py), all working on the same strategy store.    *)
(*                                                                         *)
(* Strings are TLA+ strings; time is in whole seconds (time.time()).       *)
(***************************************************************************)
EXTENDS Integers, Sequences, FiniteSets, TLC

VARIABLES
    locator_db,      \* SelfHealingHelper.locator_db: locator id -> [strategies]
    db_file,         \* locator_db.json on disk: [state, data]
    predictor,       \* SelfHealingHelper.predictor is not None
    trained_cases,   \* LocatorPredictor.model_data['trained_cases']
    model_file,      \* model_data.json on disk: [state, cases]
    page,            \* the live page behind the Page Adapter
    now,             \* time.time()
    pc,              \* position of the current get_element call
    call,            \* arguments and bookkeeping of the current call
    prev,            \* outcome of the previous completed call
    ncalls,          \* number of get_element calls started so far
    maint,           \* the last run of the maintenance tool, when recorded
    predictor_call,  \* the last call of LocatorPredictor, when recorded
    peer             \* a second engine instance on the same files, at rest

vars == <<locator_db, db_file, predictor, trained_cases, model_file,
          page, now, pc, call, prev, ncalls, maint, predictor_call, peer>>

---------------------------------------------------------------------------
(* Bounds of the model *)

MaxCalls == 2
MaxDays == 2
MaxLen == 2
MaxTicks == 2
\* calls of LocatorPredictor.train
MaxCases == 3
\* entries of a model file that earlier runs have written
SeedCases == 8

SecondsPerDay == 60 * 60 * 24

---------------------------------------------------------------------------
(* Python string and list helpers *)

\* s.startswith(p)
StartsWith(s, p) == Len(s) >= Len(p) /\ SubSeq(s, 1, Len(p)) = p

\* p in s, for strings
Contains(s, p) ==
    \E i \in 1..(Len(s) - Len(p) + 1) : SubSeq(s, i, i + Len(p) - 1) = p

\* one character of s.lower()
LowerChar(c) ==
    LET upper == "ABCDEFGHIJKLMNOPQRSTUVWXYZ"
        lower == "abcdefghijklmnopqrstuvwxyz"
    IN IF \E i \in 1..26 : SubSeq(upper, i, i) = c
       THEN LET i == CHOOSE i \in 1..26 : SubSeq(upper, i, i) = c
            IN SubSeq(lower, i, i)
       ELSE c

\* s.lower()
RECURSIVE Lower(_)
Lower(s) ==
    IF Len(s) = 0 THEN ""
    ELSE LowerChar(SubSeq(s, 1, 1)) \o Lower(SubSeq(s, 2, Len(s)))

\* s.split('_')
RECURSIVE Split(_)
Split(s) ==
    IF \E i \in 1..Len(s) : SubSeq(s, i, i) = "_"
    THEN LET i == CHOOSE i \in 1..Len(s) :
                    /\ SubSeq(s, i, i) = "_"
                    /\ \A j \in 1..(i - 1) : SubSeq(s, j, j) # "_"
         IN <<SubSeq(s, 1, i - 1)>> \o Split(SubSeq(s, i + 1, Len(s)))
    ELSE <<s>>

\* s.strip(), for blanks
RECURSIVE Strip(_)
Strip(s) ==
    IF Len(s) > 0 /\ SubSeq(s, 1, 1) = " " THEN Strip(SubSeq(s, 2, Len(s)))
    ELSE IF Len(s) > 0 /\ SubSeq(s, Len(s), Len(s)) = " "
         THEN Strip(SubSeq(s, 1, Len(s) - 1))
    ELSE s

\* sep.join(parts)
RECURSIVE Join(_, _)
Join(parts, sep) ==
    IF parts = <<>> THEN ""
    ELSE IF Len(parts) = 1 THEN parts[1]
    ELSE parts[1] \o sep \o Join(Tail(parts), sep)

\* the concatenation of a list of lists
RECURSIVE Concat(_)
Concat(lists) ==
    IF lists = <<>> THEN <<>> ELSE Head(lists) \o Concat(Tail(lists))

\* seq[:n]
Take(seq, n) == SubSeq(seq, 1, IF n < Len(seq) THEN n ELSE Len(seq))

\* list.insert(0, x)
InsertFront(seq, x) == <<x>> \o seq

\* list.remove(x): drops the first element equal to x
RECURSIVE RemoveFirst(_, _)
RemoveFirst(seq, x) ==
    IF seq = <<>> THEN <<>>
    ELSE IF Head(seq) = x THEN Tail(seq)
    ELSE <<Head(seq)>> \o RemoveFirst(Tail(seq), x)

\* the key of sorted(strategies, key=lambda s: s.get('last_used', 0))
LastUsed(s) == s.last_used

\* insertion of x into a list sorted by last_used descending, after the
\* entries whose last_used is not smaller (Python's sort is stable)
\* the insertion of the sort putting an entry ahead of the entries with
\* the same last_used
RECURSIVE InsertByLastUsedAhead(_, _)
InsertByLastUsedAhead(sorted, x) ==
    IF sorted = <<>> THEN <<x>>
    ELSE IF LastUsed(Head(sorted)) > LastUsed(x)
         THEN <<Head(sorted)>> \o InsertByLastUsedAhead(Tail(sorted), x)
         ELSE <<x>> \o sorted

RECURSIVE InsertByLastUsed(_, _)
InsertByLastUsed(sorted, x) ==
    IF sorted = <<>> THEN <<x>>
    ELSE IF LastUsed(Head(sorted)) >= LastUsed(x)
         THEN <<Head(sorted)>> \o InsertByLastUsed(Tail(sorted), x)
         ELSE <<x>> \o sorted

\* optimize_db without its sort: the strategies in the order of the list
SortNotAtAll(seq) == seq

\* sorted(strategies, key=last_used, reverse=True)
RECURSIVE SortByLastUsed(_)
SortByLastUsed(seq) ==
    IF seq = <<>> THEN <<>>
    ELSE InsertByLastUsed(SortByLastUsed(SubSeq(seq, 1, Len(seq) - 1)), seq[Len(seq)])

Range(seq) == {seq[i] : i \in 1..Len(seq)}

\* the (type, selector) pair of a strategy
Pair(s) == <<s.type, s.selector>>

\* no two entries of the list share (type, selector)
Distinct(strategies) ==
    \A i, j \in 1..Len(strategies) :
        Pair(strategies[i]) = Pair(strategies[j]) => i = j

---------------------------------------------------------------------------
(* Strategy store: the dict locator_db and the operations on it *)

EmptyDb == [l \in {} |-> [strategies |-> <<>>]]

\* db[locator_id] = value
Put(db, locator_id, value) ==
    [l \in DOMAIN db \cup {locator_id} |-> IF l = locator_id THEN value ELSE db[l]]

\* index of the first entry with the (type, selector) of strategy, 0 if none
FirstSame(strategies, strategy) ==
    IF \E i \in 1..Len(strategies) : Pair(strategies[i]) = Pair(strategy)
    THEN CHOOSE i \in 1..Len(strategies) :
            /\ Pair(strategies[i]) = Pair(strategy)
            /\ \A j \in 1..(i - 1) : Pair(strategies[j]) # Pair(strategy)
    ELSE 0

\* _add_strategy_to_database without its search for an existing
\* (type, selector) entry
AddStrategyNoCheck(db, locator_id, strategy) ==
    IF locator_id \notin DOMAIN db
    THEN Put(db, locator_id, [strategies |-> <<strategy>>])
    ELSE Put(db, locator_id,
             [strategies |-> InsertFront(db[locator_id].strategies, strategy)])

\* _add_strategy_to_database without the branch for a locator the mapping
\* does not hold yet
AddStrategyKnownOnly(db, locator_id, strategy) ==
    IF locator_id \notin DOMAIN db
    THEN db
    ELSE LET old == db[locator_id].strategies
             k == FirstSame(old, strategy)
         IN IF k # 0
            THEN Put(db, locator_id,
                     [strategies |->
                        [old EXCEPT ![k].last_used = strategy.last_used]])
            ELSE Put(db, locator_id, [strategies |-> InsertFront(old, strategy)])

\* _add_strategy_to_database with an existing (type, selector) entry
\* taken out and the strategy put at index 0 in its place
AddStrategyMoves(db, locator_id, strategy) ==
    IF locator_id \notin DOMAIN db
    THEN Put(db, locator_id, [strategies |-> <<strategy>>])
    ELSE Put(db, locator_id,
             [strategies |->
                InsertFront(SelectSeq(db[locator_id].strategies,
                                      LAMBDA x : Pair(x) # Pair(strategy)),
                            strategy)])

\* _add_strategy_to_database, without the save
AddStrategy(db, locator_id, strategy) ==
    IF locator_id \notin DOMAIN db
    THEN Put(db, locator_id, [strategies |-> <<strategy>>])
    ELSE LET old == db[locator_id].strategies
             k == FirstSame(old, strategy)
         IN IF k # 0
            THEN Put(db, locator_id,
                     [strategies |->
                        [old EXCEPT ![k].last_used = strategy.last_used]])
            ELSE Put(db, locator_id, [strategies |-> InsertFront(old, strategy)])

\* _promote_successful_strategy as an exchange of the winner with the
\* entry at index 0
PromoteSwap(db, locator_id, strategy) ==
    LET old == db[locator_id].strategies
        k == CHOOSE i \in 1..Len(old) :
                /\ old[i] = strategy
                /\ \A j \in 1..(i - 1) : old[j] # strategy
    IN Put(db, locator_id,
           [strategies |-> [old EXCEPT ![1] = old[k], ![k] = old[1]]])

\* _promote_successful_strategy, without the save
Promote(db, locator_id, strategy) ==
    Put(db, locator_id,
        [strategies |->
            InsertFront(RemoveFirst(db[locator_id].strategies, strategy), strategy)])

\* cutoff_time of remove_stale_strategies
CutoffTime(t, days) == t - (SecondsPerDay * days)

\* remove_stale_strategies with its comparison turned round: the entries
\* used before the cutoff are the ones kept
RECURSIVE ActiveStrategiesOlder(_, _)
ActiveStrategiesOlder(strategies, cutoff_time) ==
    IF strategies = <<>> THEN <<>>
    ELSE (IF LastUsed(Head(strategies)) < cutoff_time
          THEN <<Head(strategies)>> ELSE <<>>)
         \o ActiveStrategiesOlder(Tail(strategies), cutoff_time)

\* remove_stale_strategies with a loop that starts at the second strategy
ActiveStrategiesButFirst(strategies, cutoff_time) ==
    IF strategies = <<>> THEN <<>>
    ELSE SelectSeq(Tail(strategies), LAMBDA x : LastUsed(x) > cutoff_time)

\* the strategies remove_stale_strategies keeps of one locator
RECURSIVE ActiveStrategies(_, _)
ActiveStrategies(strategies, cutoff_time) ==
    IF strategies = <<>> THEN <<>>
    ELSE (IF LastUsed(Head(strategies)) > cutoff_time
          THEN <<Head(strategies)>> ELSE <<>>)
         \o ActiveStrategies(Tail(strategies), cutoff_time)

\* remove_stale_strategies(db, days) run at time t
RemoveStale(db, days, t) ==
    LET keep == {l \in DOMAIN db :
                    ActiveStrategies(db[l].strategies, CutoffTime(t, days)) # <<>>}
    IN [l \in keep |->
          [strategies |-> ActiveStrategies(db[l].strategies, CutoffTime(t, days))]]

\* best_strategies of optimize_db: the first entry of each type, in the
\* order the types first occur (dict insertion order)
RECURSIVE BestStrategies(_, _)
BestStrategies(sorted_strategies, seen) ==
    IF sorted_strategies = <<>> THEN <<>>
    ELSE IF Head(sorted_strategies).type \in seen
         THEN BestStrategies(Tail(sorted_strategies), seen)
         ELSE <<Head(sorted_strategies)>>
              \o BestStrategies(Tail(sorted_strategies),
                                seen \cup {Head(sorted_strategies).type})

\* optimize_db(db)
OptimizeDb(db) ==
    LET keep == {l \in DOMAIN db : db[l].strategies # <<>>}
    IN [l \in keep |->
          [strategies |-> BestStrategies(SortByLastUsed(db[l].strategies), {})]]

---------------------------------------------------------------------------
(* Page Adapter: what _create_element_by_type builds and what the live    *)
(* page answers.  A page is [dom, live]: dom is the snapshot              *)
(* page.content() returns (a flat list of elements), live maps the        *)
(* element handles that become visible to the element they resolve to.    *)

NoElement == [method |-> "none", arg |-> ""]

\* _create_element_by_type(selector_type, selector): the locator built, or
\* NoElement for the final "return None"
CreateElementByType(selector_type, selector) ==
    IF selector_type = "css" THEN [method |-> "locator", arg |-> selector]
    ELSE IF selector_type = "text" THEN [method |-> "get_by_text", arg |-> selector]
    ELSE IF selector_type = "role" THEN [method |-> "get_by_role", arg |-> selector]
    ELSE IF selector_type = "alt" THEN [method |-> "get_by_alt_text", arg |-> selector]
    ELSE IF selector_type = "label" THEN [method |-> "get_by_label", arg |-> selector]
    ELSE IF selector_type = "placeholder"
         THEN [method |-> "get_by_placeholder", arg |-> selector]
    ELSE IF selector_type = "testid" THEN [method |-> "get_by_test_id", arg |-> selector]
    ELSE IF selector_type = "xpath" \/ StartsWith(selector_type, "predicted_xpath")
         THEN [method |-> "locator", arg |-> "xpath=" \o selector]
    ELSE NoElement

\* selectors the browser cannot parse: waiting on them raises an error that
\* is not a TimeoutError
MalformedSelectors == {"#["}

\* element.wait_for(timeout=...) on a created element:
\* "visible", "timeout" (TimeoutError) or "error" (any other exception)
WaitFor(pg, element) ==
    IF element.method = "locator" /\ element.arg \in MalformedSelectors THEN "error"
    ELSE IF element \in DOMAIN pg.live THEN "visible"
    ELSE "timeout"

\* an element of the DOM snapshot; "" stands for an absent attribute
Tag(name, id, class, nameattr, placeholder, type, text) ==
    [name |-> name, id |-> id, class |-> class, nameattr |-> nameattr,
     placeholder |-> placeholder, type |-> type, text |-> text,
     alt |-> "", aria |-> ""]

InputSearchBox == Tag("input", "search_box", <<>>, "", "", "", "")
InputQ == Tag("input", "q", <<>>, "", "", "", "")
DivSearchBox == Tag("div", "search_box", <<>>, "", "", "", "search")

Locator(selector) == [method |-> "locator", arg |-> selector]
ByText(text) == [method |-> "get_by_text", arg |-> text]

\* what el.tagName.toLowerCase() and el.type evaluate to on a live element
Live(tag) == [tagName |-> tag.name, type |-> tag.type]

\* nothing the engine can try is on the page
PageGone == [dom |-> <<>>, live |-> [h \in {} |-> Live(InputQ)]]
\* the element still answers to the selector the test was written with
PageOriginal ==
    [dom |-> <<InputQ>>, live |-> [h \in {Locator("#q")} |-> Live(InputQ)]]
\* the markup changed: the element is now an input whose id is the locator id
PageHealed ==
    [dom |-> <<InputSearchBox>>,
     live |-> [h \in {Locator("#search_box")} |-> Live(InputSearchBox)]]
\* both selectors resolve
PageBoth ==
    [dom |-> <<InputQ, InputSearchBox>>,
     live |-> [h \in {Locator("#q"), Locator("#search_box")} |->
                 IF h = Locator("#q") THEN Live(InputQ) ELSE Live(InputSearchBox)]]
\* the id now belongs to a div with text: visible, but not an input
PageDiv ==
    [dom |-> <<DivSearchBox>>,
     live |-> [h \in {Locator("#search_box"), ByText("search"),
                      Locator("xpath=//*[contains(text(), 'search')]")} |->
                 Live(DivSearchBox)]]

Pages == {PageGone, PageOriginal, PageHealed, PageBoth, PageDiv}

\* inputs that are in the markup and not shown (display: none)
HiddenSearch ==
    Tag("input", "site_search", <<"search-input">>, "search", "Search", "search", "")
HiddenText == Tag("input", "", <<>>, "", "", "text", "")
DivLabel == Tag("div", "", <<>>, "", "", "", "search")

\* a hidden search input in front of the input with the locator id: the
\* selectors both answer to resolve to the hidden one (.first)
PageCrowded ==
    [dom |-> <<HiddenSearch, InputSearchBox>>,
     live |-> [h \in {Locator("#search_box")} |-> Live(InputSearchBox)]]
\* a hidden text input in front of the input with the locator id
PageFourth ==
    [dom |-> <<HiddenText, InputSearchBox>>,
     live |-> [h \in {Locator("#search_box")} |-> Live(InputSearchBox)]]
\* only a div with the text is shown
PageLabel ==
    [dom |-> <<DivLabel>>,
     live |-> [h \in {ByText("search"),
                      Locator("xpath=//*[contains(text(), 'search')]")} |->
                 Live(DivLabel)]]

\* pages with more candidates than a stage tries
HealPages == {PageCrowded, PageFourth, PageLabel, PageDiv}

---------------------------------------------------------------------------
(* Candidate Generator: the three sub-generators of                       *)
(* _try_basic_healing_strategies.  A score is the Python float times      *)
(* 100000, plus or minus 1 when the float lies just above or below the    *)
(* decimal it is written as (0.8 + 0.05 is 0.8500000000000001, kept as    *)
(* 85001), so that comparing scores agrees with comparing the floats.     *)

\* hints = locator_id.lower().split('_')
Hints(locator_id) == Split(Lower(locator_id))

\* any(h in words for h in hints)
AnyHintIn(hints, words) == \E i \in 1..Len(hints) : hints[i] \in words

\* whether a tag answers to one of the CSS selectors the generator hands to
\* soup.select
MatchesCss(tag, selector) ==
    IF selector = "input[type='search']" THEN tag.name = "input" /\ tag.type = "search"
    ELSE IF selector = "input[type='text']" THEN tag.name = "input" /\ tag.type = "text"
    ELSE IF selector = "input[type='submit']"
         THEN tag.name = "input" /\ tag.type = "submit"
    ELSE IF selector = "input[placeholder]"
         THEN tag.name = "input" /\ tag.placeholder # ""
    ELSE IF selector = "[placeholder]" THEN tag.placeholder # ""
    ELSE IF selector = "[placeholder*='ara']" THEN Contains(tag.placeholder, "ara")
    ELSE IF selector = ".search-input" THEN "search-input" \in Range(tag.class)
    ELSE IF selector = ".search-button" THEN "search-button" \in Range(tag.class)
    ELSE IF selector = "input.search"
         THEN tag.name = "input" /\ "search" \in Range(tag.class)
    ELSE IF selector = "button.search"
         THEN tag.name = "button" /\ "search" \in Range(tag.class)
    ELSE IF selector = "input[name='search']"
         THEN tag.name = "input" /\ tag.nameattr = "search"
    ELSE IF selector = "input[name='q']" THEN tag.name = "input" /\ tag.nameattr = "q"
    ELSE IF selector \in {"button", "textarea", "select"} THEN tag.name = selector
    ELSE FALSE

Candidate(tag, type, selector, score) ==
    [element |-> tag, type |-> type, selector |-> selector, score |-> score]

\* one candidate per tag soup.select(selector) finds, for each selector
SelectAll(dom, selectors, score) ==
    Concat([k \in 1..Len(selectors) |->
        Concat([i \in 1..Len(dom) |->
            IF MatchesCss(dom[i], selectors[k])
            THEN <<Candidate(dom[i], "css", selectors[k], score)>>
            ELSE <<>>])])

\* the text candidates of _find_text_based_elements for one hint, taking
\* every element with a text whether the hint is in it or not
TextMatchesAny(dom, hint) ==
    Concat([i \in 1..Len(dom) |->
        IF /\ dom[i].text # ""
           /\ dom[i].name \notin {"input", "textarea", "select", "button"}
        THEN <<Candidate(dom[i], "text", Strip(dom[i].text),
                         IF dom[i].name \in {"a", "details", "dialog", "menu"}
                         THEN 80000 ELSE 70000)>>
        ELSE <<>>])

\* the text candidates of _find_text_based_elements for one hint
TextMatches(dom, hint) ==
    Concat([i \in 1..Len(dom) |->
        IF /\ dom[i].text # ""
           /\ Contains(Lower(dom[i].text), hint)
           /\ dom[i].name \notin {"input", "textarea", "select", "button"}
        THEN <<Candidate(dom[i], "text", Strip(dom[i].text),
                         IF dom[i].name \in {"a", "details", "dialog", "menu"}
                         THEN 80000 ELSE 70000)>>
        ELSE <<>>])

\* _find_text_based_elements(soup, hints)
FindTextBasedElements(dom, hints) ==
    SelectAll(dom, <<"input[type='search']", "input[type='text']",
                     "input[placeholder]", ".search-input", "input.search",
                     "input[name='search']", "input[name='q']">>, 90000)
    \o (IF AnyHintIn(hints, {"arama", "search", "kutu", "input", "field", "text", "area"})
        THEN SelectAll(dom, <<"input[type='search']", "input[type='text']",
                              ".search-input", "[placeholder]">>, 95000)
        ELSE <<>>)
    \o (IF AnyHintIn(hints, {"buton", "button", "submit", "ara", "search", "click"})
        THEN SelectAll(dom, <<"button", "input[type='submit']", ".search-button",
                              "button.search">>, 92000)
        ELSE <<>>)
    \o Concat([h \in 1..Len(hints) |->
            IF Len(hints[h]) > 3 THEN TextMatches(dom, hints[h]) ELSE <<>>])

\* the number of hints longer than 3 characters
LongHints(hints) == Cardinality({h \in 1..Len(hints) : Len(hints[h]) > 3})

\* the candidates of _find_attribute_based_elements for one hint with the
\* scores of the id and the class match exchanged
AttributeMatchesClassFirst(dom, hint) ==
    Concat([i \in 1..Len(dom) |->
        IF dom[i].id # "" /\ Contains(Lower(dom[i].id), hint)
        THEN <<Candidate(dom[i], "css", "#" \o dom[i].id, 80000)>> ELSE <<>>])
    \o Concat([i \in 1..Len(dom) |->
        IF dom[i].class # <<>> /\ Contains(Lower(Join(dom[i].class, " ")), hint)
        THEN <<Candidate(dom[i], "css", "." \o Join(dom[i].class, "."), 90000)>>
        ELSE <<>>])
    \o Concat([i \in 1..Len(dom) |->
        IF dom[i].nameattr # "" /\ Contains(Lower(dom[i].nameattr), hint)
        THEN <<Candidate(dom[i], "css", "[name='" \o dom[i].nameattr \o "']", 85000)>>
        ELSE <<>>])
    \o Concat([i \in 1..Len(dom) |->
        IF dom[i].placeholder # "" /\ Contains(Lower(dom[i].placeholder), hint)
        THEN <<Candidate(dom[i], "css", "[placeholder*='" \o hint \o "']", 85000)>>
        ELSE <<>>])

\* the id, class, name and placeholder candidates of
\* _find_attribute_based_elements for one hint
AttributeMatches(dom, hint) ==
    Concat([i \in 1..Len(dom) |->
        IF dom[i].id # "" /\ Contains(Lower(dom[i].id), hint)
        THEN <<Candidate(dom[i], "css", "#" \o dom[i].id, 90000)>> ELSE <<>>])
    \o Concat([i \in 1..Len(dom) |->
        IF dom[i].class # <<>> /\ Contains(Lower(Join(dom[i].class, " ")), hint)
        THEN <<Candidate(dom[i], "css", "." \o Join(dom[i].class, "."), 80000)>>
        ELSE <<>>])
    \o Concat([i \in 1..Len(dom) |->
        IF dom[i].nameattr # "" /\ Contains(Lower(dom[i].nameattr), hint)
        THEN <<Candidate(dom[i], "css", "[name='" \o dom[i].nameattr \o "']", 85000)>>
        ELSE <<>>])
    \o Concat([i \in 1..Len(dom) |->
        IF dom[i].placeholder # "" /\ Contains(Lower(dom[i].placeholder), hint)
        THEN <<Candidate(dom[i], "css", "[placeholder*='" \o hint \o "']", 85000)>>
        ELSE <<>>])

\* _find_attribute_based_elements looking the attributes up for every
\* hint, whatever its length
FindAttributeBasedElementsAnyLength(dom, hints) ==
    LET input_selectors == <<"input[type='search']", "input[type='text']",
                             ".search-input", "[placeholder*='ara']",
                             "input[name='search']", "textarea", "select">>
    IN Concat([k \in 1..Len(input_selectors) |->
          Concat([i \in 1..Len(dom) |->
            IF MatchesCss(dom[i], input_selectors[k])
            THEN [n \in 1..LongHints(hints) |->
                    Candidate(dom[i], "css", input_selectors[k], 85000)]
            ELSE <<>>])])
       \o Concat([h \in 1..Len(hints) |-> AttributeMatches(dom, hints[h])])

\* _find_attribute_based_elements(soup, hints)
FindAttributeBasedElements(dom, hints) ==
    LET input_selectors == <<"input[type='search']", "input[type='text']",
                             ".search-input", "[placeholder*='ara']",
                             "input[name='search']", "textarea", "select">>
    IN Concat([k \in 1..Len(input_selectors) |->
          Concat([i \in 1..Len(dom) |->
            IF MatchesCss(dom[i], input_selectors[k])
            THEN [n \in 1..LongHints(hints) |->
                    Candidate(dom[i], "css", input_selectors[k], 85000)]
            ELSE <<>>])])
       \o Concat([h \in 1..Len(hints) |->
            IF Len(hints[h]) > 3 THEN AttributeMatches(dom, hints[h]) ELSE <<>>])

\* the candidates _find_form_elements emits for one input, textarea or select
FormInputMatches(tag, hint) ==
    (IF tag.id # "" /\ Contains(Lower(tag.id), hint)
     THEN <<Candidate(tag, "css", "#" \o tag.id,
                      IF Lower(tag.id) = Lower(hint) THEN 95000 ELSE 90000)>>
     ELSE <<>>)
    \o (IF tag.nameattr # "" /\ Contains(Lower(tag.nameattr), hint)
        THEN <<Candidate(tag, "css", tag.name \o "[name='" \o tag.nameattr \o "']",
                         IF Lower(tag.nameattr) = Lower(hint) THEN 92000 ELSE 85001)>>
        ELSE <<>>)
    \o (IF tag.placeholder # "" /\ Contains(Lower(tag.placeholder), hint)
        THEN <<Candidate(tag, "css", tag.name \o "[placeholder*='" \o hint \o "']",
                         88000)>>
        ELSE <<>>)
    \o (IF tag.type # "" /\ Contains(Lower(tag.type), hint)
        THEN <<Candidate(tag, "css", tag.name \o "[type='" \o tag.type \o "']", 82001)>>
        ELSE <<>>)
    \o (IF tag.class # <<>> /\ Contains(Lower(Join(tag.class, " ")), hint)
        THEN <<Candidate(tag, "css", "." \o Join(tag.class, "."), 80000)>>
        ELSE <<>>)

\* the candidates _find_form_elements emits for one button or anchor
FormButtonMatches(tag, hint) ==
    (IF tag.text # "" /\ Contains(Lower(tag.text), hint)
     THEN <<Candidate(tag, "text", Strip(tag.text),
                      IF Lower(tag.text) = Lower(hint) THEN 85000 ELSE 75000)>>
     ELSE <<>>)
    \o (IF tag.alt # "" /\ Contains(Lower(tag.alt), hint)
        THEN <<Candidate(tag, "css", tag.name \o "[alt*='" \o hint \o "']", 80000)>>
        ELSE <<>>)
    \o (IF tag.aria # "" /\ Contains(Lower(tag.aria), hint)
        THEN <<Candidate(tag, "css", tag.name \o "[aria-label*='" \o hint \o "']",
                         82000)>>
        ELSE <<>>)

\* _find_form_elements(soup, hints)
FindFormElements(dom, hints) ==
    Concat([h \in 1..Len(hints) |->
        IF Len(hints[h]) > 3
        THEN Concat([i \in 1..Len(dom) |->
                IF dom[i].name \in {"input", "textarea", "select"}
                THEN FormInputMatches(dom[i], hints[h]) ELSE <<>>])
             \o Concat([i \in 1..Len(dom) |->
                IF dom[i].name \in {"button", "a"}
                THEN FormButtonMatches(dom[i], hints[h]) ELSE <<>>])
        ELSE <<>>])

\* possible_elements of _try_basic_healing_strategies
PossibleElements(dom, hints) ==
    FindTextBasedElements(dom, hints)
    \o FindAttributeBasedElements(dom, hints)
    \o FindFormElements(dom, hints)

---------------------------------------------------------------------------
(* Type-compatibility pass, ranking and the post-hoc verification *)

\* _guess_element_type_from_id(locator_id)
GuessElementTypeFromId(locator_id) ==
    LET id_lower == Lower(locator_id)
        HasKw(kws) == \E kw \in kws : Contains(id_lower, kw)
        element_types ==
            (IF HasKw({"input", "text", "field", "area", "arama", "search", "kutu"})
             THEN <<"input">> ELSE <<>>)
            \o (IF HasKw({"button", "buton", "btn", "submit", "gonder", "ara"})
                THEN <<"button">> ELSE <<>>)
            \o (IF HasKw({"link", "baglanti", "url", "href"}) THEN <<"link">> ELSE <<>>)
            \o (IF HasKw({"select", "dropdown", "option", "secim", "liste"})
                THEN <<"select">> ELSE <<>>)
            \o (IF HasKw({"check", "tick", "onay", "checkbox"})
                THEN <<"checkbox">> ELSE <<>>)
    IN IF element_types = <<>> THEN <<"element">> ELSE element_types

\* the sign of the float's distance from its decimal: -1, 0 or 1
Ulp(score) == ((score + 1) % 10) - 1

\* base_score += 0.2, as the float addition rounds
Add02(score) == IF score = 70000 THEN 89999 ELSE (score - Ulp(score)) + 20000

\* base_score *= 0.5 (exact on floats)
Half(score) == ((score - Ulp(score)) \div 2) + Ulp(score)

\* min(1.0, base_score)
CapAtOne(score) == IF score > 100000 THEN 100000 ELSE score

\* min(0.99, base_score)
Cap(score) == IF score > 99000 THEN 99000 ELSE score

\* the score _filter_elements_by_type gives one candidate
FilteredScore(item, element_type_hints) ==
    LET types == Range(element_type_hints)
        tag_name == Lower(item.element.name)
        selector == item.selector
        bonus ==
            IF tag_name \in {"input", "textarea"}
            THEN "input" \in types /\ tag_name = "input"
            ELSE IF tag_name = "button" \/ Contains(selector, "submit")
            THEN "button" \in types
                 /\ (tag_name = "button"
                        \/ (tag_name = "input" /\ Contains(selector, "submit")))
            ELSE IF tag_name = "a" \/ Contains(selector, "link")
            THEN "link" \in types /\ tag_name = "a"
            ELSE IF tag_name = "select"
            THEN "select" \in types
            ELSE FALSE
        boosted == IF bonus THEN Add02(item.score) ELSE item.score
        lowered == IF "input" \in types
                      /\ tag_name \notin {"input", "textarea", "select"}
                   THEN Half(boosted) ELSE boosted
    IN Cap(lowered)

\* _filter_elements_by_type(elements, element_type_hints)
FilterElementsByType(elements, element_type_hints) ==
    [i \in 1..Len(elements) |->
        [elements[i] EXCEPT !.score = FilteredScore(elements[i], element_type_hints)]]

\* insertion before the entries whose score is not greater
RECURSIVE InsertByScoreBefore(_, _)
InsertByScoreBefore(sorted, x) ==
    IF sorted = <<>> THEN <<x>>
    ELSE IF Head(sorted).score > x.score
         THEN <<Head(sorted)>> \o InsertByScoreBefore(Tail(sorted), x)
         ELSE <<x>> \o sorted

\* insertion into a list sorted by score descending, after the entries
\* whose score is not smaller
RECURSIVE InsertByScore(_, _)
InsertByScore(sorted, x) ==
    IF sorted = <<>> THEN <<x>>
    ELSE IF Head(sorted).score >= x.score
         THEN <<Head(sorted)>> \o InsertByScore(Tail(sorted), x)
         ELSE <<x>> \o sorted

\* sorted(items, key=score, reverse=True)
RECURSIVE SortByScore(_)
SortByScore(seq) ==
    IF seq = <<>> THEN <<>>
    ELSE InsertByScore(SortByScore(SubSeq(seq, 1, Len(seq) - 1)), seq[Len(seq)])

\* sorted_elements of _try_possible_elements with the candidates whose
\* selector the store already holds for the locator put last
SortedElementsKnownLast(locator_id, possible_elements) ==
    LET sorted == SortByScore(FilterElementsByType(possible_elements,
                                  GuessElementTypeFromId(locator_id)))
        known == IF locator_id \in DOMAIN locator_db
                 THEN {locator_db[locator_id].strategies[i].selector :
                          i \in 1..Len(locator_db[locator_id].strategies)}
                 ELSE {}
    IN SelectSeq(sorted, LAMBDA x : x.selector \notin known)
       \o SelectSeq(sorted, LAMBDA x : x.selector \in known)

\* sorted_elements of _try_possible_elements
SortedElements(locator_id, possible_elements) ==
    SortByScore(FilterElementsByType(possible_elements,
                                     GuessElementTypeFromId(locator_id)))

\* _verify_element_interaction_type(element, expected_types), on the
\* tagName and type the live element reports
VerifyElementInteractionType(info, expected_types) ==
    LET types == Range(expected_types)
        tag_name == Lower(info.tagName)
        input_type == Lower(info.type)
    IN \/ "input" \in types /\ tag_name \in {"input", "textarea", "select"}
       \/ "button" \in types
            /\ (tag_name = "button"
                  \/ (tag_name = "input" /\ input_type \in {"button", "submit"}))
       \/ "link" \in types /\ tag_name = "a"
       \/ "select" \in types /\ tag_name = "select"
       \/ "checkbox" \in types /\ tag_name = "input" /\ input_type = "checkbox"
       \/ "element" \in types

---------------------------------------------------------------------------
(* Prediction Fallback: LocatorPredictor.predict and train *)

\* the predictions of LocatorPredictor.predict with a text and an XPath
\* candidate for every hint, whatever its length
PredictionsAnyHint(locator_id, hints, cases) ==
    <<[selector |-> "#" \o locator_id, type |-> "css", score |-> 80000]>>
    \o Concat([h \in 1..Len(hints) |->
            <<[selector |-> hints[h], type |-> "text", score |-> 70000],
              [selector |-> "//*[contains(text(), '" \o hints[h] \o "')]",
               type |-> "xpath", score |-> 60000]>>])
    \o [c \in 1..Len(cases) |->
            [selector |-> cases[c].selector, type |-> cases[c].selector_type,
             score |-> 75000]]

\* the predictions of LocatorPredictor.predict before sorting
Predictions(locator_id, hints, cases) ==
    <<[selector |-> "#" \o locator_id, type |-> "css", score |-> 80000]>>
    \o Concat([h \in 1..Len(hints) |->
            IF Len(hints[h]) < 4 THEN <<>>
            ELSE <<[selector |-> hints[h], type |-> "text", score |-> 70000],
                   [selector |-> "//*[contains(text(), '" \o hints[h] \o "')]",
                    type |-> "xpath", score |-> 60000]>>])
    \o [c \in 1..Len(cases) |->
            [selector |-> cases[c].selector, type |-> cases[c].selector_type,
             score |-> 75000]]

\* predict that returns the best five
PredictTopFive(locator_id, hints, cases) ==
    Take(SortByScore(Predictions(locator_id, hints, cases)), 5)

\* LocatorPredictor.predict(locator_id, html_content, hints)
Predict(locator_id, hints, cases) ==
    Take(SortByScore(Predictions(locator_id, hints, cases)), 10)

\* new_case of LocatorPredictor.train
NewCase(locator_id, selector, selector_type, t) ==
    [locator_id |-> locator_id, selector |-> selector,
     selector_type |-> selector_type, timestamp |-> t]

\* actual_type taken to be the selector_type as it is
ActualTypeAsStored(selector_type) == selector_type

\* actual_type of _train_model_with_strategy
ActualType(selector_type) ==
    IF StartsWith(selector_type, "predicted_")
    THEN SubSeq(selector_type, Len("predicted_") + 1, Len(selector_type))
    ELSE selector_type

---------------------------------------------------------------------------
(* Resolution Engine: the stages of get_element as functions of the       *)
(* store, the predictor log and the page *)

Attempt(stage, type, selector, outcome) ==
    [stage |-> stage, type |-> type, selector |-> selector, outcome |-> outcome]

\* what trying one (type, selector) comes to: "unsupported" when
\* _create_element_by_type returns None, else what wait_for does
TryOne(pg, type, selector) ==
    IF CreateElementByType(type, selector) = NoElement THEN "unsupported"
    ELSE WaitFor(pg, CreateElementByType(type, selector))

\* the loop of _try_database_strategies from index i on:
\* [status, index, attempts], status "found" (return element), "none"
\* (return None) or "raise" (an exception other than TimeoutError escapes)
RECURSIVE ScanStrategies(_, _, _)
ScanStrategies(strategies, i, pg) ==
    IF i > Len(strategies)
    THEN [status |-> "none", index |-> 0, attempts |-> <<>>]
    ELSE LET outcome == TryOne(pg, strategies[i].type, strategies[i].selector)
             this == Attempt("TRY_STORE", strategies[i].type,
                             strategies[i].selector, outcome)
             rest == ScanStrategies(strategies, i + 1, pg)
         IN IF outcome = "visible"
            THEN [status |-> "found", index |-> i, attempts |-> <<this>>]
            ELSE IF outcome = "error"
            THEN [status |-> "raise", index |-> i, attempts |-> <<this>>]
            ELSE [rest EXCEPT !.attempts = <<this>> \o rest.attempts]

\* _try_database_strategies(locator_id, timeout), without the promotion
TryDatabaseStrategies(db, locator_id, pg) ==
    IF locator_id \notin DOMAIN db
    THEN [status |-> "none", index |-> 0, attempts |-> <<>>]
    ELSE ScanStrategies(db[locator_id].strategies, 1, pg)

\* the loop of _try_possible_elements over sorted_elements[:max_attempts]
\* from index i on: [status, index, attempts]
RECURSIVE ScanElements(_, _, _, _)
ScanElements(items, i, expected_types, pg) ==
    IF i > Len(items)
    THEN [status |-> "none", index |-> 0, attempts |-> <<>>]
    ELSE LET waited == TryOne(pg, items[i].type, items[i].selector)
             outcome ==
                IF waited = "visible"
                   /\ ~VerifyElementInteractionType(
                          pg.live[CreateElementByType(items[i].type,
                                                      items[i].selector)],
                          expected_types)
                THEN "wrong_type" ELSE waited
             this == Attempt("TRY_HEURISTIC", items[i].type, items[i].selector,
                             outcome)
             rest == ScanElements(items, i + 1, expected_types, pg)
         IN IF outcome = "visible"
            THEN [status |-> "found", index |-> i, attempts |-> <<this>>]
            ELSE [rest EXCEPT !.attempts = <<this>> \o rest.attempts]

\* _try_possible_elements without the limit of max_attempts
TryPossibleElementsAll(locator_id, possible_elements, pg) ==
    LET sorted_elements == SortedElements(locator_id, possible_elements)
        scan == ScanElements(sorted_elements, 1,
                             GuessElementTypeFromId(locator_id), pg)
    IN IF possible_elements = <<>>
       THEN [status |-> "none", index |-> 0, attempts |-> <<>>]
       ELSE scan

\* _try_possible_elements(locator_id, possible_elements, timeout), without
\* the save: [status, item, attempts]
TryPossibleElements(locator_id, possible_elements, pg) ==
    LET sorted_elements == SortedElements(locator_id, possible_elements)
        scan == ScanElements(Take(sorted_elements, 5), 1,
                             GuessElementTypeFromId(locator_id), pg)
    IN IF possible_elements = <<>>
       THEN [status |-> "none", index |-> 0, attempts |-> <<>>]
       ELSE scan

\* the loop of _try_prediction_strategy stopping after the fifth of the
\* predicted_locators
RECURSIVE ScanPredictionsTopFive(_, _, _)
ScanPredictionsTopFive(preds, i, pg) ==
    IF i > Len(preds) \/ i > 5
    THEN [status |-> "none", index |-> 0, attempts |-> <<>>]
    ELSE LET outcome == TryOne(pg, preds[i].type, preds[i].selector)
             this == Attempt("TRY_PREDICTED", preds[i].type, preds[i].selector,
                             outcome)
             rest == ScanPredictionsTopFive(preds, i + 1, pg)
         IN IF outcome = "visible"
            THEN [status |-> "found", index |-> i, attempts |-> <<this>>]
            ELSE [rest EXCEPT !.attempts = <<this>> \o rest.attempts]

\* the loop of _try_prediction_strategy over predicted_locators from index
\* i on: [status, index, attempts]
RECURSIVE ScanPredictions(_, _, _)
ScanPredictions(preds, i, pg) ==
    IF i > Len(preds)
    THEN [status |-> "none", index |-> 0, attempts |-> <<>>]
    ELSE LET outcome == TryOne(pg, preds[i].type, preds[i].selector)
             this == Attempt("TRY_PREDICTED", preds[i].type, preds[i].selector,
                             outcome)
             rest == ScanPredictions(preds, i + 1, pg)
         IN IF outcome = "visible"
            THEN [status |-> "found", index |-> i, attempts |-> <<this>>]
            ELSE [rest EXCEPT !.attempts = <<this>> \o rest.attempts]

---------------------------------------------------------------------------
(* State: files, engine construction, and the bookkeeping of a call *)

LocatorIds == {"search_box", "login_btn"}

\* the locator ids get_element is called with
CallLocators == {"search_box"}

\* the selector= argument of get_element; "" is None
OriginalSelectors == {"", "#q"}

StartTime == 3 * SecondsPerDay

Strategy(type, selector, last_used) ==
    [type |-> type, selector |-> selector, last_used |-> last_used]

FileOf(db) == [state |-> "ok", data |-> db]
MissingFile == [state |-> "missing", data |-> EmptyDb]
CorruptFile == [state |-> "corrupt", data |-> EmptyDb]

\* store files left by earlier runs
SeededDbs ==
    { [l \in {"search_box"} |->
          [strategies |-> <<Strategy("css", "#q", StartTime - SecondsPerDay),
                            Strategy("xpath", "//input[@name='q']",
                                     StartTime - SecondsPerDay),
                            Strategy("css", "#search_box", StartTime)>>]],
      [l \in {"search_box"} |->
          [strategies |-> <<Strategy("css", "#[", StartTime),
                            Strategy("xpath", "//input", StartTime)>>]],
      [l \in {"search_box", "login_btn"} |->
          IF l = "search_box"
          THEN [strategies |->
                  <<Strategy("css", "#q", StartTime),
                    Strategy("predicted_css", "#search_box",
                             StartTime - (2 * SecondsPerDay))>>]
          ELSE [strategies |-> <<Strategy("text", "Login", StartTime)>>]] }

InitialFiles == {MissingFile, CorruptFile} \cup {FileOf(db) : db \in SeededDbs}

\* _load_locator_db()
LoadLocatorDb(file) == IF file.state = "ok" THEN file.data ELSE EmptyDb

\* a save that reads the file back and keeps the strategies it holds
\* that db lacks
WrittenDbMerged(file, db, result) ==
    IF result = "ok"
    THEN FileOf([l \in DOMAIN db \cup DOMAIN file.data |->
            LET mine == IF l \in DOMAIN db THEN db[l].strategies ELSE <<>>
                theirs == IF l \in DOMAIN file.data
                          THEN file.data[l].strategies ELSE <<>>
            IN [strategies |->
                   mine \o SelectSeq(theirs, LAMBDA x :
                               \A i \in 1..Len(mine) : Pair(mine[i]) # Pair(x))]])
    ELSE IF result = "unchanged" THEN file
    ELSE CorruptFile

\* a save that is put off: nothing of db reaches the store file
WrittenDbLater(file, db, result) ==
    IF result = "corrupt" THEN CorruptFile ELSE file

\* what json.dump of db leaves in the store file: "ok" the mapping,
\* "unchanged" when open() fails, "corrupt" when the dump breaks off after
\* the file was truncated
WrittenDb(file, db, result) ==
    IF result = "ok" THEN FileOf(db)
    ELSE IF result = "unchanged" THEN file
    ELSE CorruptFile

WriteResults == {"ok", "unchanged", "corrupt"}

ModelFileOf(cases) == [state |-> "ok", cases |-> cases]
MissingModelFile == [state |-> "missing", cases |-> <<>>]
CorruptModelFile == [state |-> "corrupt", cases |-> <<>>]

\* a write of the newest case alone
WrittenModelLast(file, cases, result) ==
    IF result = "ok" THEN ModelFileOf(<<cases[Len(cases)]>>)
    ELSE IF result = "unchanged" THEN file
    ELSE CorruptModelFile

\* what json.dump of model_data leaves in the model file
WrittenModel(file, cases, result) ==
    IF result = "ok" THEN ModelFileOf(cases)
    ELSE IF result = "unchanged" THEN file
    ELSE CorruptModelFile

\* trained_cases of _load_model_data()
LoadTrainedCases(file) == IF file.state = "ok" THEN file.cases ELSE <<>>

NoResult == [type |-> "", selector |-> ""]

NoCall ==
    [locator_id |-> "", selector |-> "", db0 |-> EmptyDb, trace |-> <<>>,
     attempts |-> <<>>, snapshots |-> 0, predicts |-> 0, result |-> NoResult,
     index |-> 0, persisted |-> FALSE, write |-> "", model_write |-> "",
     fresh |-> "", ranked |-> <<>>, possible |-> <<>>, behind |-> FALSE,
     model_behind |-> FALSE,
     file0 |-> MissingFile, cases0 |-> <<>>, model0 |-> MissingModelFile]

NoPrev == [valid |-> FALSE, locator_id |-> "", selector |-> "", pc |-> "idle",
           result |-> NoResult, write |-> "", model_write |-> "",
           ranked |-> <<>>, trace |-> <<>>]

NoPrior == [op |-> "none", days |-> 0, at |-> 0, changed |-> FALSE]

NoMaint == [op |-> "none", days |-> 0, before |-> EmptyDb, at |-> 0,
            prior |-> NoPrior]

NoPredictorCall ==
    [op |-> "none", locator_id |-> "", selector |-> "", selector_type |-> "",
     at |-> 0, cases |-> <<>>, result |-> <<>>, write |-> ""]

\* no second engine instance has been constructed
NoPeer == [started |-> FALSE, locator_db |-> EmptyDb, trained_cases |-> <<>>,
           saved |-> FALSE]

Done == {"RESOLVED", "FAILED", "ERROR"}
\* between two calls: "NEW" right after construction, "REGISTERED" right
\* after register_locator, "idle" after a change of the page
Idle == {"idle", "NEW", "REGISTERED"} \cup Done

Init ==
    /\ db_file \in InitialFiles
    /\ locator_db = LoadLocatorDb(db_file)
    /\ predictor \in BOOLEAN
    /\ model_file = MissingModelFile
    /\ trained_cases = LoadTrainedCases(model_file)
    /\ page \in Pages
    /\ now = StartTime
    /\ pc = "NEW"
    /\ call = NoCall
    /\ prev = NoPrev
    /\ ncalls = 0
    /\ maint = NoMaint
    /\ predictor_call = NoPredictorCall
    /\ peer = NoPeer

---------------------------------------------------------------------------
(* Actions.  writes is the set of results a file write may have. *)

Enter(stage) == [call EXCEPT !.trace = Append(@, stage)]

\* get_element that gives a locator the mapping does not hold an empty
\* list before the first stage
GetElementRegisters(locator_id, selector) ==
    /\ pc \in Idle
    /\ ncalls < MaxCalls
    /\ pc' = "TRY_STORE"
    /\ call' = [NoCall EXCEPT !.locator_id = locator_id, !.selector = selector,
                              !.db0 = locator_db,
                              !.fresh = IF pc = "NEW" THEN db_file.state ELSE "",
                              !.behind = (db_file # FileOf(locator_db)),
                              !.model_behind =
                                  (model_file # ModelFileOf(trained_cases)),
                              !.file0 = db_file,
                              !.cases0 = trained_cases,
                              !.model0 = model_file]
    /\ prev' = IF pc \in Done
               THEN [valid |-> TRUE, locator_id |-> call.locator_id,
                     selector |-> call.selector, pc |-> pc,
                     result |-> call.result, write |-> call.write,
                     model_write |-> call.model_write, ranked |-> call.ranked,
                     trace |-> call.trace]
               ELSE NoPrev
    /\ ncalls' = ncalls + 1
    /\ now' = now + SecondsPerDay
    /\ locator_db' = IF locator_id \in DOMAIN locator_db THEN locator_db
                     ELSE Put(locator_db, locator_id, [strategies |-> <<>>])
    /\ UNCHANGED <<db_file, predictor, trained_cases, model_file, page,
                   maint, predictor_call, peer>>

\* get_element(locator_id, selector=selector): the call starts, a day after
\* the one before
GetElement(locator_id, selector) ==
    /\ pc \in Idle
    /\ ncalls < MaxCalls
    /\ pc' = "TRY_STORE"
    /\ call' = [NoCall EXCEPT !.locator_id = locator_id, !.selector = selector,
                              !.db0 = locator_db,
                              !.fresh = IF pc = "NEW" THEN db_file.state ELSE "",
                              !.behind = (db_file # FileOf(locator_db)),
                              !.model_behind =
                                  (model_file # ModelFileOf(trained_cases)),
                              !.file0 = db_file,
                              !.cases0 = trained_cases,
                              !.model0 = model_file]
    /\ prev' = IF pc \in Done
               THEN [valid |-> TRUE, locator_id |-> call.locator_id,
                     selector |-> call.selector, pc |-> pc,
                     result |-> call.result, write |-> call.write,
                     model_write |-> call.model_write, ranked |-> call.ranked,
                     trace |-> call.trace]
               ELSE NoPrev
    /\ ncalls' = ncalls + 1
    /\ now' = now + SecondsPerDay
    /\ UNCHANGED <<locator_db, db_file, predictor, trained_cases, model_file, page,
                   maint, predictor_call, peer>>

\* LocatorPredictor.train without a second entry for a selector the log
\* already holds for the locator
TrainOnce(cases, locator_id, selector, selector_type, t) ==
    IF \E i \in 1..Len(cases) :
          /\ cases[i].locator_id = locator_id
          /\ cases[i].selector = selector
          /\ cases[i].selector_type = selector_type
    THEN cases
    ELSE Append(cases, NewCase(locator_id, selector, selector_type, t))

\* trained_cases after LocatorPredictor.train(locator_id, html_content,
\* successful_selector, selector_type) at time t
Train(cases, locator_id, selector, selector_type, t) ==
    Append(cases, NewCase(locator_id, selector, selector_type, t))

\* _save_successful_strategy(locator_id, selector, selector_type):
\* _add_strategy_to_database with its save, then _train_model_with_strategy;
\* w and mw are the results of the two file writes
SaveSuccessfulStrategy(locator_id, selector, selector_type, w, mw) ==
    /\ locator_db' = AddStrategy(locator_db, locator_id,
                                 Strategy(selector_type, selector, now))
    /\ db_file' = WrittenDb(db_file, locator_db', w)
    /\ IF predictor
       THEN /\ trained_cases' =
                  Train(trained_cases, locator_id, selector,
                        ActualType(selector_type), now)
            /\ model_file' = WrittenModel(model_file, trained_cases', mw)
       ELSE UNCHANGED <<trained_cases, model_file>>

\* the results the write of the model file may have: train is called only
\* when there is a predictor
ModelWrites(writes) == IF predictor THEN writes ELSE {""}

\* what a call that recorded a success keeps of it
Saved(c, w, mw) ==
    [c EXCEPT !.write = w,
              !.model_write = mw,
              !.persisted = (db_file' = FileOf(locator_db'))]

\* stage 1 of get_element without the return that follows a stored
\* strategy's success
TryStoreNoReturn(writes) ==
    /\ pc = "TRY_STORE"
    /\ LET r == TryDatabaseStrategies(locator_db, call.locator_id, page)
           entered == [Enter("TRY_STORE") EXCEPT !.attempts = @ \o r.attempts]
       IN IF r.status = "found"
          THEN LET strategy == locator_db[call.locator_id].strategies[r.index]
               IN /\ locator_db' = Promote(locator_db, call.locator_id, strategy)
                  /\ \E w \in writes : db_file' = WrittenDb(db_file, locator_db', w)
                  /\ pc' = "TRY_ORIGINAL"
                  /\ call' = [entered EXCEPT !.index = r.index]
          ELSE /\ pc' = IF r.status = "raise" THEN "ERROR" ELSE "TRY_ORIGINAL"
               /\ call' = entered
               /\ UNCHANGED <<locator_db, db_file>>
    /\ UNCHANGED <<predictor, trained_cases, model_file, page, now, prev, ncalls,
                   maint, predictor_call, peer>>

\* stage 1 of get_element: _try_database_strategies, with the promotion
\* and its save
TryStore(writes) ==
    /\ pc = "TRY_STORE"
    /\ LET r == TryDatabaseStrategies(locator_db, call.locator_id, page)
           entered == [Enter("TRY_STORE") EXCEPT !.attempts = @ \o r.attempts]
       IN IF r.status = "found"
          THEN LET strategy == locator_db[call.locator_id].strategies[r.index]
               IN /\ locator_db' = Promote(locator_db, call.locator_id, strategy)
                  /\ \E w \in writes :
                        /\ db_file' = WrittenDb(db_file, locator_db', w)
                        /\ call' = [entered EXCEPT
                                      !.result = [type |-> strategy.type,
                                                  selector |-> strategy.selector],
                                      !.index = r.index,
                                      !.write = w,
                                      !.persisted =
                                         (db_file' = FileOf(locator_db'))]
                  /\ pc' = "RESOLVED"
          ELSE /\ pc' = IF r.status = "raise" THEN "ERROR" ELSE "TRY_ORIGINAL"
               /\ call' = entered
               /\ UNCHANGED <<locator_db, db_file>>
    /\ UNCHANGED <<predictor, trained_cases, model_file, page, now, prev, ncalls,
                   maint, predictor_call, peer>>

\* _try_original_selector recording the selector as a text strategy
TryOriginalSavesText(writes) ==
    /\ pc = "TRY_ORIGINAL"
    /\ IF call.selector = ""
       THEN /\ pc' = "TRY_HEURISTIC"
            /\ call' = Enter("TRY_ORIGINAL")
            /\ UNCHANGED <<locator_db, db_file, trained_cases, model_file>>
       ELSE LET outcome == WaitFor(page, Locator(call.selector))
                entered == [Enter("TRY_ORIGINAL") EXCEPT !.attempts =
                              Append(@, Attempt("TRY_ORIGINAL", "css",
                                                call.selector, outcome))]
            IN IF outcome = "visible"
               THEN \E w \in writes, mw \in ModelWrites(writes) :
                       /\ SaveSuccessfulStrategy(call.locator_id, call.selector,
                                                 "text", w, mw)
                       /\ pc' = "RESOLVED"
                       /\ call' = Saved([entered EXCEPT
                                     !.result = [type |-> "css",
                                                 selector |-> call.selector],
                                     !.snapshots = @ + (IF predictor THEN 1 ELSE 0)],
                                   w, mw)
               ELSE /\ pc' = "TRY_HEURISTIC"
                    /\ call' = entered
                    /\ UNCHANGED <<locator_db, db_file, trained_cases, model_file>>
    /\ UNCHANGED <<predictor, page, now, prev, ncalls, maint, predictor_call,
                   peer>>

\* stage 2 of get_element: _try_original_selector
TryOriginal(writes) ==
    /\ pc = "TRY_ORIGINAL"
    /\ IF call.selector = ""
       THEN /\ pc' = "TRY_HEURISTIC"
            /\ call' = Enter("TRY_ORIGINAL")
            /\ UNCHANGED <<locator_db, db_file, trained_cases, model_file>>
       ELSE LET outcome == WaitFor(page, Locator(call.selector))
                entered == [Enter("TRY_ORIGINAL") EXCEPT !.attempts =
                              Append(@, Attempt("TRY_ORIGINAL", "css",
                                                call.selector, outcome))]
            IN IF outcome = "visible"
               THEN \E w \in writes, mw \in ModelWrites(writes) :
                       /\ SaveSuccessfulStrategy(call.locator_id, call.selector,
                                                 "css", w, mw)
                       /\ pc' = "RESOLVED"
                       /\ call' = Saved([entered EXCEPT
                                     !.result = [type |-> "css",
                                                 selector |-> call.selector],
                                     !.snapshots = @ + (IF predictor THEN 1 ELSE 0)],
                                   w, mw)
               ELSE /\ pc' = "TRY_HEURISTIC"
                    /\ call' = entered
                    /\ UNCHANGED <<locator_db, db_file, trained_cases, model_file>>
    /\ UNCHANGED <<predictor, page, now, prev, ncalls, maint, predictor_call,
                   peer>>

\* locator ids with short and long tokens and with the keywords of every
\* element type _guess_element_type_from_id knows
GenLocators ==
    {"search_box", "ara_box", "box", "login_btn", "login_field",
     "terms_checkbox", "menu_link", "menu"}

TextInput == Tag("input", "username", <<>>, "username", "", "text", "")
CheckboxTerms == Tag("input", "terms", <<>>, "", "", "checkbox", "")
ButtonLogin == Tag("button", "login", <<"btn", "login">>, "", "", "", "Login")
LinkMenu == Tag("a", "", <<"menu">>, "", "", "", "menu")

GenTags ==
    {InputSearchBox, DivSearchBox, HiddenSearch, TextInput, CheckboxTerms,
     ButtonLogin, LinkMenu}

\* snapshots of at most two elements
GenDoms ==
    {<<>>} \cup {<<t>> : t \in GenTags}
    \cup {<<t, u>> : <<t, u>> \in {x \in GenTags \X GenTags : x[1] # x[2]}}

\* the page of a snapshot all of whose elements are shown: every handle a
\* candidate of the generator is realized as resolves to the first element
\* of the snapshot it was found for
GenPage(dom) ==
    LET cands == UNION {Range(PossibleElements(dom, Hints(l))) : l \in GenLocators}
        Handle(c) == CreateElementByType(c.type, c.selector)
        First(h) ==
            CHOOSE i \in 1..Len(dom) :
                /\ \E c \in cands : c.element = dom[i] /\ Handle(c) = h
                /\ \A j \in 1..(i - 1) :
                      ~ \E c \in cands : c.element = dom[j] /\ Handle(c) = h
    IN [dom |-> dom,
        live |-> [h \in {Handle(c) : c \in cands} |-> Live(dom[First(h)])]]

\* possible_elements of _try_basic_healing_strategies for the snapshot of
\* page p and the hints of locator id l, worked out once for all of them
PossibleElementsOf ==
    [p \in Pages \cup HealPages |->
        [l \in LocatorIds |-> PossibleElements(p.dom, Hints(l))]]

\* possible_elements for page p and locator id l
PossibleElementsAt(p, l) ==
    IF p \in DOMAIN PossibleElementsOf /\ l \in LocatorIds
    THEN PossibleElementsOf[p][l]
    ELSE PossibleElements(p.dom, Hints(l))

\* the page snapshot and stage 3 of get_element:
\* _try_basic_healing_strategies
TryBasicHealing(writes) ==
    /\ pc = "TRY_HEURISTIC"
    /\ LET possible_elements == PossibleElementsAt(page, call.locator_id)
           sorted_elements == SortedElements(call.locator_id, possible_elements)
           r == TryPossibleElements(call.locator_id, possible_elements, page)
           entered == [Enter("TRY_HEURISTIC") EXCEPT
                          !.attempts = @ \o r.attempts, !.snapshots = @ + 1,
                          !.ranked = sorted_elements,
                          !.possible = possible_elements]
       IN IF r.status = "found"
          THEN LET item == sorted_elements[r.index]
               IN \E w \in writes, mw \in ModelWrites(writes) :
                     /\ SaveSuccessfulStrategy(call.locator_id, item.selector,
                                               item.type, w, mw)
                     /\ pc' = "RESOLVED"
                     /\ call' = Saved([entered EXCEPT
                                   !.result = [type |-> item.type,
                                               selector |-> item.selector],
                                   !.index = r.index,
                                   !.snapshots = @ + (IF predictor THEN 1 ELSE 0)],
                                 w, mw)
          ELSE /\ pc' = "TRY_PREDICTED"
               /\ call' = entered
               /\ UNCHANGED <<locator_db, db_file, trained_cases, model_file>>
    /\ UNCHANGED <<predictor, page, now, prev, ncalls, maint, predictor_call,
                   peer>>

\* stage 4 of get_element: _try_prediction_strategy, and the final raise
TryPrediction(writes) ==
    /\ pc = "TRY_PREDICTED"
    /\ IF ~predictor
       THEN /\ pc' = "FAILED"
            /\ call' = Enter("TRY_PREDICTED")
            /\ UNCHANGED <<locator_db, db_file, trained_cases, model_file>>
       ELSE LET preds == Predict(call.locator_id, Hints(call.locator_id),
                                 trained_cases)
                r == ScanPredictions(preds, 1, page)
                entered == [Enter("TRY_PREDICTED") EXCEPT
                              !.attempts = @ \o r.attempts, !.predicts = @ + 1]
            IN IF r.status = "found"
               THEN LET strategy_type == "predicted_" \o preds[r.index].type
                    IN \E w \in writes, mw \in ModelWrites(writes) :
                          /\ SaveSuccessfulStrategy(call.locator_id,
                                                    preds[r.index].selector,
                                                    strategy_type, w, mw)
                          /\ pc' = "RESOLVED"
                          /\ call' = Saved([entered EXCEPT
                                        !.result = [type |-> strategy_type,
                                                    selector |->
                                                       preds[r.index].selector],
                                        !.index = r.index,
                                        !.snapshots = @ + 1],
                                      w, mw)
               ELSE /\ pc' = "FAILED"
                    /\ call' = entered
                    /\ UNCHANGED <<locator_db, db_file, trained_cases, model_file>>
    /\ UNCHANGED <<predictor, page, now, prev, ncalls, maint, predictor_call,
                   peer>>

---------------------------------------------------------------------------
(* The engine's surroundings: construction, registration, the offline     *)
(* maintenance tool, the clock and the page *)

\* a new engine instance that takes over the mapping of the one before
NewEngineKeepsMapping ==
    /\ pc \in Idle
    /\ trained_cases' = IF predictor THEN LoadTrainedCases(model_file) ELSE <<>>
    /\ pc' = "NEW"
    /\ call' = NoCall
    /\ UNCHANGED <<locator_db, db_file, predictor, model_file, page, now, prev,
                   ncalls, maint, predictor_call, peer>>

\* SelfHealingHelper(page): a new engine instance loads both files
NewEngine ==
    /\ pc \in Idle
    /\ locator_db' = LoadLocatorDb(db_file)
    /\ trained_cases' = IF predictor THEN LoadTrainedCases(model_file) ELSE <<>>
    /\ pc' = "NEW"
    /\ call' = NoCall
    /\ UNCHANGED <<db_file, predictor, model_file, page, now, prev, ncalls, maint,
                   predictor_call, peer>>

\* the locator_info values register_locator is called with
RegisterInfos ==
    { [strategies |-> <<>>],
      [strategies |-> <<Strategy("css", "#q", StartTime)>>] }

\* register_locator(locator_id, locator_info), one of the MaxCalls calls
RegisterLocator(locator_id, locator_info, writes) ==
    /\ pc \in Idle
    /\ ncalls < MaxCalls
    /\ ncalls' = ncalls + 1
    /\ locator_db' = Put(locator_db, locator_id, locator_info)
    /\ \E w \in writes :
          /\ db_file' = WrittenDb(db_file, locator_db', w)
          /\ call' = [NoCall EXCEPT !.locator_id = locator_id,
                                    !.db0 = locator_db,
                                    !.write = w,
                                    !.persisted = (db_file' = FileOf(locator_db'))]
    /\ pc' = "REGISTERED"
    /\ UNCHANGED <<predictor, trained_cases, model_file, page, now, prev, maint,
                   predictor_call, peer>>

\* what a maintenance run leaves in maint
Recorded(record, op, days) ==
    IF record
    THEN [op |-> op, days |-> days, before |-> db_file.data, at |-> now,
          prior |-> [op |-> maint.op, days |-> maint.days, at |-> maint.at,
                     changed |-> maint.op # "none"
                                 /\ maint.before # db_file.data]]
    ELSE NoMaint

\* clean_db.py --remove-stale --days days
CleanRemoveStale(days, writes, record) ==
    /\ pc \in Idle
    /\ db_file.state = "ok"
    /\ \E w \in writes :
          db_file' = WrittenDb(db_file, RemoveStale(db_file.data, days, now), w)
    /\ maint' = Recorded(record, "remove_stale", days)
    /\ UNCHANGED <<locator_db, predictor, trained_cases, model_file, page, now,
                   pc, call, prev, ncalls, predictor_call, peer>>

\* clean_db.py --optimize
CleanOptimize(writes, record) ==
    /\ pc \in Idle
    /\ db_file.state = "ok"
    /\ \E w \in writes : db_file' = WrittenDb(db_file, OptimizeDb(db_file.data), w)
    /\ maint' = Recorded(record, "optimize", 0)
    /\ UNCHANGED <<locator_db, predictor, trained_cases, model_file, page, now,
                   pc, call, prev, ncalls, predictor_call, peer>>

\* the page under test changes between two calls
ChangePage(p) ==
    /\ pc \in Idle
    /\ p # page
    /\ page' = p
    /\ pc' = "idle"
    /\ call' = NoCall
    /\ UNCHANGED <<locator_db, db_file, predictor, trained_cases, model_file,
                   now, prev, ncalls, maint, predictor_call, peer>>

Step(writes) ==
    \/ \E l \in CallLocators, sel \in OriginalSelectors : GetElement(l, sel)
    \/ TryStore(writes)
    \/ TryOriginal(writes)
    \/ TryBasicHealing(writes)
    \/ TryPrediction(writes)
    \/ NewEngine
    \/ \E days \in 1..MaxDays : CleanRemoveStale(days, writes, FALSE)
    \/ CleanOptimize(writes, FALSE)
    \/ \E p \in Pages : ChangePage(p)

\* every file write succeeds
Next == Step({"ok"})

Spec == Init /\ [][Next]_vars

\* the steps of a call that has begun
StageStep ==
    TryStore({"ok"}) \/ TryOriginal({"ok"}) \/ TryBasicHealing({"ok"})
    \/ TryPrediction({"ok"})

\* the call leaves the stage it is in: every stage action is such a step,
\* and one of them can be taken whenever the call is in a stage
LeaveStage ==
    /\ pc \in {"TRY_STORE", "TRY_ORIGINAL", "TRY_HEURISTIC", "TRY_PREDICTED"}
    /\ pc' \in {"TRY_ORIGINAL", "TRY_HEURISTIC", "TRY_PREDICTED",
                "RESOLVED", "FAILED", "ERROR"} \ {pc}

\* calls of get_element one after the other, nothing else going on
NextLive ==
    \/ \E l \in CallLocators, sel \in OriginalSelectors : GetElement(l, sel)
    \/ StageStep

\* get_element runs its stages one after the other and every wait of a
\* stage is bounded by its timeout: a call does not stay in a stage
SpecLive == Init /\ [][NextLive]_vars /\ WF_pc(LeaveStage)

\* the page before and after the markup changes
FaultPages == {PageOriginal, PageHealed}

\* file writes may fail; the only change of the page is that the markup
\* takes the locator id as the element's id; the maintenance tool is not run
NextFaults ==
    \/ \E l \in CallLocators, sel \in OriginalSelectors : GetElement(l, sel)
    \/ TryStore(WriteResults)
    \/ TryOriginal(WriteResults)
    \/ TryBasicHealing(WriteResults)
    \/ TryPrediction(WriteResults)
    \/ NewEngine
    \/ \E l \in CallLocators, info \in RegisterInfos :
          RegisterLocator(l, info, WriteResults)
    \/ ChangePage(PageHealed)

InitFaults ==
    /\ Init
    /\ page \in FaultPages

SpecFaults == InitFaults /\ [][NextFaults]_vars

---------------------------------------------------------------------------
(* The maintenance tool on its own: clean_db.py run over store files of   *)
(* every shape up to MaxLen strategies per locator, with last_used values *)
(* on both sides of the cutoffs *)

MaintPairs == {<<"css", "#q">>, <<"css", "#search_box">>, <<"text", "Login">>}

MaintLastUsed ==
    { StartTime - (2 * SecondsPerDay), (StartTime - SecondsPerDay) - 1,
      StartTime - SecondsPerDay, (StartTime - SecondsPerDay) + 1 }

MaintStrategies ==
    { Strategy(p[1], p[2], t) : p \in MaintPairs, t \in MaintLastUsed }

RECURSIVE MaintLists(_)
MaintLists(n) ==
    IF n = 0 THEN {<<>>}
    ELSE LET shorter == MaintLists(n - 1)
         IN shorter \cup
            { Append(l, s) : <<l, s>> \in
                 { ls \in shorter \X MaintStrategies :
                      /\ Len(ls[1]) = n - 1
                      /\ \A i \in 1..Len(ls[1]) : Pair(ls[1][i]) # Pair(ls[2]) } }

MaintOthers ==
    { EmptyDb,
      [l \in {"login_btn"} |->
          [strategies |-> <<Strategy("text", "Login", StartTime - (2 * SecondsPerDay))>>]],
      [l \in {"login_btn"} |->
          [strategies |-> <<Strategy("text", "Login", StartTime)>>]] }

MaintDbs ==
    { Put(other, "search_box", [strategies |-> l]) :
         other \in MaintOthers, l \in MaintLists(MaxLen) }

MaintTimes == {StartTime}

InitMaint ==
    /\ db_file \in {FileOf(db) : db \in MaintDbs}
    /\ now \in MaintTimes
    /\ locator_db = EmptyDb
    /\ predictor = FALSE
    /\ model_file = MissingModelFile
    /\ trained_cases = <<>>
    /\ page = PageGone
    /\ pc = "idle"
    /\ call = NoCall
    /\ prev = NoPrev
    /\ ncalls = 0
    /\ maint = NoMaint
    /\ predictor_call = NoPredictorCall
    /\ peer = NoPeer

\* time passes between two runs of the tool
ClockAdvances ==
    /\ now < StartTime + MaxTicks
    /\ now' = now + 1
    /\ UNCHANGED <<locator_db, db_file, predictor, trained_cases, model_file,
                   page, pc, call, prev, ncalls, maint, predictor_call, peer>>

NextMaint ==
    \/ \E days \in 1..MaxDays : CleanRemoveStale(days, {"ok"}, TRUE)
    \/ CleanOptimize({"ok"}, TRUE)
    \/ ClockAdvances

SpecMaint == InitMaint /\ [][NextMaint]_vars

---------------------------------------------------------------------------
(* The predictor on its own: LocatorPredictor trained and asked directly, *)
(* with writes of the model file that may fail *)

\* the (locator_id, successful_selector, selector_type) train is called with
TrainInputs ==
    { <<"x", ".y", "css">>, <<"search_box", "//input[@name='q']", "xpath">> }

\* the locator ids predict is called with; hints are those get_element
\* derives from the id
PredictLocators == {"x", "search_box"}

\* the log earlier runs have left: the same selector learned again at
\* every resolution
EarlierLog ==
    [i \in 1..SeedCases |-> NewCase("x", ".y", "css", StartTime - SeedCases + i - 1)]

InitPredict ==
    /\ db_file = MissingFile
    /\ locator_db = EmptyDb
    /\ predictor = TRUE
    /\ model_file \in {MissingModelFile, CorruptModelFile, ModelFileOf(EarlierLog)}
    /\ trained_cases = LoadTrainedCases(model_file)
    /\ page = PageGone
    /\ now = StartTime
    /\ pc = "idle"
    /\ call = NoCall
    /\ prev = NoPrev
    /\ ncalls = 0
    /\ maint = NoMaint
    /\ predictor_call = NoPredictorCall
    /\ peer = NoPeer

\* LocatorPredictor.train(locator_id, html_content, successful_selector,
\* selector_type); ncalls counts the calls of train
PredictorTrain(locator_id, selector, selector_type, writes) ==
    /\ ncalls < MaxCases
    /\ \E w \in writes :
          /\ trained_cases' =
                 Train(trained_cases, locator_id, selector, selector_type, now)
          /\ model_file' = WrittenModel(model_file, trained_cases', w)
          /\ predictor_call' =
                 [NoPredictorCall EXCEPT !.op = "train",
                                         !.locator_id = locator_id,
                                         !.selector = selector,
                                         !.selector_type = selector_type,
                                         !.at = now,
                                         !.cases = trained_cases,
                                         !.write = w]
    /\ ncalls' = ncalls + 1
    /\ now' = now + 1
    /\ UNCHANGED <<locator_db, db_file, predictor, page, pc, call, prev, maint,
                   peer>>

\* LocatorPredictor.predict(locator_id, html_content, hints)
PredictorPredict(locator_id) ==
    /\ predictor_call' =
           [NoPredictorCall EXCEPT !.op = "predict",
                                   !.locator_id = locator_id,
                                   !.cases = trained_cases,
                                   !.result = Predict(locator_id,
                                                      Hints(locator_id),
                                                      trained_cases)]
    /\ UNCHANGED <<locator_db, db_file, predictor, trained_cases, model_file,
                   page, now, pc, call, prev, ncalls, maint, peer>>

\* LocatorPredictor(): a new predictor loads the model file
NewPredictor ==
    /\ trained_cases' = LoadTrainedCases(model_file)
    /\ predictor_call' = NoPredictorCall
    /\ UNCHANGED <<locator_db, db_file, predictor, model_file, page, now, pc,
                   call, prev, ncalls, maint, peer>>

NextPredict ==
    \/ \E input \in TrainInputs :
          PredictorTrain(input[1], input[2], input[3], WriteResults)
    \/ \E l \in PredictLocators : PredictorPredict(l)
    \/ NewPredictor

SpecPredict == InitPredict /\ [][NextPredict]_vars

---------------------------------------------------------------------------
(* Two engine instances on the same files: the helper of the test context *)
(* and the helper of a page object.  One of them is at work, in            *)
(* locator_db and trained_cases; the other is at rest, in peer. *)

\* SelfHealingHelper(page) a second time: the second instance loads the
\* files as they are
StartPeer ==
    /\ ~peer.started
    /\ pc \in Idle
    /\ peer' = [started |-> TRUE,
                locator_db |-> LoadLocatorDb(db_file),
                trained_cases |-> IF predictor THEN LoadTrainedCases(model_file)
                                  ELSE <<>>,
                saved |-> FALSE]
    /\ UNCHANGED <<locator_db, db_file, predictor, trained_cases, model_file,
                   page, now, pc, call, prev, ncalls, maint, predictor_call>>

\* the next call goes to the other instance; saved tells whether the
\* instance that goes to rest has just saved a success
SwitchInstance ==
    /\ peer.started
    /\ pc \in Idle
    /\ locator_db' = peer.locator_db
    /\ trained_cases' = peer.trained_cases
    /\ peer' = [started |-> TRUE, locator_db |-> locator_db,
                trained_cases |-> trained_cases, saved |-> (pc = "RESOLVED")]
    /\ pc' = "idle"
    /\ call' = NoCall
    /\ UNCHANGED <<db_file, predictor, model_file, page, now, prev, ncalls,
                   maint, predictor_call>>

\* every file write succeeds
NextShared ==
    \/ \E l \in CallLocators, sel \in OriginalSelectors : GetElement(l, sel)
    \/ TryStore({"ok"})
    \/ TryOriginal({"ok"})
    \/ TryBasicHealing({"ok"})
    \/ TryPrediction({"ok"})
    \/ StartPeer
    \/ SwitchInstance

SpecShared == Init /\ [][NextShared]_vars

---------------------------------------------------------------------------
(* The later stages on pages with many candidates, and on a model file    *)
(* that earlier runs have filled *)

InitHeal ==
    /\ db_file \in InitialFiles
    /\ locator_db = LoadLocatorDb(db_file)
    /\ predictor \in BOOLEAN
    /\ model_file \in {MissingModelFile, ModelFileOf(EarlierLog)}
    /\ trained_cases = LoadTrainedCases(model_file)
    /\ page \in HealPages
    /\ now = StartTime
    /\ pc = "NEW"
    /\ call = NoCall
    /\ prev = NoPrev
    /\ ncalls = 0
    /\ maint = NoMaint
    /\ predictor_call = NoPredictorCall
    /\ peer = NoPeer

NextHeal ==
    \/ \E l \in CallLocators, sel \in OriginalSelectors : GetElement(l, sel)
    \/ TryStore({"ok"})
    \/ TryOriginal({"ok"})
    \/ TryBasicHealing({"ok"})
    \/ TryPrediction({"ok"})
    \/ \E p \in HealPages : ChangePage(p)

SpecHeal == InitHeal /\ [][NextHeal]_vars

---------------------------------------------------------------------------
(* The candidate generator and the type pass over many snapshots and      *)
(* locator ids: a new engine with an empty store resolves one locator     *)

InitGen ==
    /\ db_file = MissingFile
    /\ locator_db = LoadLocatorDb(db_file)
    /\ predictor = FALSE
    /\ model_file = MissingModelFile
    /\ trained_cases = LoadTrainedCases(model_file)
    /\ \E dom \in GenDoms : page = GenPage(dom)
    /\ now = StartTime
    /\ pc = "NEW"
    /\ call = NoCall
    /\ prev = NoPrev
    /\ ncalls = 0
    /\ maint = NoMaint
    /\ predictor_call = NoPredictorCall
    /\ peer = NoPeer

NextGen ==
    \/ pc = "NEW" /\ \E l \in GenLocators : GetElement(l, "")
    \/ TryStore({"ok"})
    \/ TryOriginal({"ok"})
    \/ TryBasicHealing({"ok"})
    \/ TryPrediction({"ok"})

SpecGen == InitGen /\ [][NextGen]_vars

---------------------------------------------------------------------------
(* Properties of the resolution cascade *)

StageOrder == <<"TRY_STORE", "TRY_ORIGINAL", "TRY_HEURISTIC", "TRY_PREDICTED">>

StageIndex(stage) == CHOOSE i \in 1..Len(StageOrder) : StageOrder[i] = stage

\* the strategies of locator_id in db, none when it is unknown
StrategiesOf(db, locator_id) ==
    IF locator_id \in DOMAIN db THEN db[locator_id].strategies ELSE <<>>

\* C1: a call enters the stages in the order TRY_STORE, TRY_ORIGINAL,
\* TRY_HEURISTIC, TRY_PREDICTED, none of them twice; a stage is entered
\* only after every attempt of the earlier stages has failed, and the call
\* returns at the first attempt that succeeds.
C1_StageOrder ==
    /\ Len(call.trace) <= Len(StageOrder)
    /\ call.trace = SubSeq(StageOrder, 1, Len(call.trace))
    /\ pc \in Range(StageOrder) => pc = StageOrder[Len(call.trace) + 1]
    /\ pc = "FAILED" => call.trace = StageOrder
    /\ \A i \in 1..Len(call.attempts) :
          /\ call.attempts[i].stage \in Range(call.trace)
          /\ \A j \in 1..(i - 1) :
                StageIndex(call.attempts[j].stage) <= StageIndex(call.attempts[i].stage)
          /\ call.attempts[i].outcome = "visible" =>
                /\ i = Len(call.attempts)
                /\ pc = "RESOLVED"
                /\ call.attempts[i].stage = call.trace[Len(call.trace)]
    /\ pc = "RESOLVED" =>
          /\ call.attempts # <<>>
          /\ call.attempts[Len(call.attempts)].outcome = "visible"

\* a call resolved by the last stage, after the three before it failed
C1_Witness ==
    /\ pc = "RESOLVED"
    /\ call.trace = StageOrder
    /\ Len(call.attempts) >= 3

\* C2: when a stored strategy succeeds, the call makes no attempt with the
\* original selector, takes no page snapshot and asks the predictor for
\* nothing.
C2_ShortCircuit ==
    (\E i \in 1..Len(call.attempts) :
        /\ call.attempts[i].stage = "TRY_STORE"
        /\ call.attempts[i].outcome = "visible")
    => /\ call.trace = <<"TRY_STORE">>
       /\ \A j \in 1..Len(call.attempts) : call.attempts[j].stage = "TRY_STORE"
       /\ call.snapshots = 0
       /\ call.predicts = 0

\* a stored strategy won although the original selector was given and
\* live, and a predictor was there to be asked
C2_Witness ==
    /\ pc = "RESOLVED"
    /\ call.trace = <<"TRY_STORE">>
    /\ call.selector # ""
    /\ WaitFor(page, Locator(call.selector)) = "visible"
    /\ call.result.selector # call.selector
    /\ predictor

\* C3: when the stored strategy at index k wins, the list afterwards is
\* that strategy followed by the other strategies in the order they had;
\* nothing is added and nothing is lost.
C3_Promotion ==
    (pc = "RESOLVED" /\ call.trace = <<"TRY_STORE">>) =>
        LET old == call.db0[call.locator_id].strategies
            k == call.index
        IN locator_db[call.locator_id].strategies =
              <<old[k]>> \o SubSeq(old, 1, k - 1) \o SubSeq(old, k + 1, Len(old))

\* the third stored strategy won after the two before it failed
C3_Witness ==
    /\ pc = "RESOLVED"
    /\ call.trace = <<"TRY_STORE">>
    /\ call.index >= 3
    /\ Len(call.attempts) = call.index

\* C4: two consecutive calls for the same locator, with the page and the
\* engine unchanged between them, end alike: the second resolves to the
\* (type, selector) the first resolved to, and the locator's list holds no
\* (type, selector) twice.
C4_Idempotent ==
    (/\ pc \in Done
     /\ prev.valid
     /\ prev.locator_id = call.locator_id
     /\ prev.selector = call.selector)
    => /\ prev.pc = "RESOLVED" =>
             /\ pc = "RESOLVED"
             /\ call.result = prev.result
       /\ prev.pc = pc
       /\ Distinct(StrategiesOf(locator_db, call.locator_id))

\* the second of two calls resolved by a later stage to what the first
\* resolved to
C4_Witness ==
    /\ pc = "RESOLVED"
    /\ prev.valid
    /\ prev.locator_id = call.locator_id
    /\ prev.selector = call.selector
    /\ prev.pc = "RESOLVED"
    /\ call.trace # <<"TRY_STORE">>

\* C5: no locator's list holds two strategies with the same (type,
\* selector), in the engine's mapping and in the store file, whatever calls
\* and maintenance runs came before.
C5_Unique ==
    /\ \A l \in DOMAIN locator_db : Distinct(locator_db[l].strategies)
    /\ db_file.state = "ok" =>
          \A l \in DOMAIN db_file.data : Distinct(db_file.data[l].strategies)

\* two calls recorded their strategies and a maintenance run rewrote the
\* store file since
C5_Witness ==
    /\ pc = "RESOLVED"
    /\ prev.valid
    /\ prev.pc = "RESOLVED"
    /\ call.trace # <<"TRY_STORE">>
    /\ Len(StrategiesOf(locator_db, call.locator_id)) >= 2
    /\ db_file.state = "ok"
    /\ db_file.data # locator_db

\* the strategy a call that ended RESOLVED recorded
Recorded_strategy == Strategy(call.result.type, call.result.selector, now)

\* a call that a stage after TRY_STORE resolved: the stage recorded its
\* strategy with _save_successful_strategy
RecordedSuccess == pc = "RESOLVED" /\ call.trace # <<"TRY_STORE">>

\* C6 as the specification states it: the recorded (type, selector) is at
\* index 0 afterwards with last_used the time of the call, whether it was
\* in the list before or not, the other entries follow in the order they
\* had, and the store file holds the mapping.
C6_RecordSuccessMoves ==
    RecordedSuccess =>
        LET old == StrategiesOf(call.db0, call.locator_id)
            k == FirstSame(old, Recorded_strategy)
            others == IF k = 0 THEN old
                      ELSE SubSeq(old, 1, k - 1) \o SubSeq(old, k + 1, Len(old))
        IN /\ StrategiesOf(locator_db, call.locator_id) =
                 <<Recorded_strategy>> \o others
           /\ call.persisted

\* C6 as the code has it: a (type, selector) already in the list keeps its
\* index and gets last_used set to the time of the call; one that is not in
\* the list is inserted at index 0; in both cases the mapping is written to
\* the store file before the call returns.
C6_RecordSuccessTouches ==
    RecordedSuccess =>
        LET old == StrategiesOf(call.db0, call.locator_id)
            k == FirstSame(old, Recorded_strategy)
        IN /\ StrategiesOf(locator_db, call.locator_id) =
                 IF k = 0 THEN <<Recorded_strategy>> \o old
                 ELSE [old EXCEPT ![k].last_used = now]
           /\ call.persisted

\* a later stage resolved to a (type, selector) the list already held at an
\* index after the first, with an older last_used
C6_Witness ==
    /\ RecordedSuccess
    /\ LET old == StrategiesOf(call.db0, call.locator_id)
           k == FirstSame(old, Recorded_strategy)
       IN /\ k >= 2
          /\ old[k].last_used < now

\* C7: every call ends in one of two ways, RESOLVED with one element or
\* FAILED with the not-found error, and it ends FAILED exactly when no
\* attempt of any stage succeeded.
C7_AllOrNothing ==
    pc \in Done =>
        LET succeeded == \E i \in 1..Len(call.attempts) :
                            call.attempts[i].outcome = "visible"
        IN /\ pc \in {"RESOLVED", "FAILED"}
           /\ pc = "RESOLVED" <=> succeeded
           /\ pc = "RESOLVED" <=> call.result # NoResult

\* C8: an attempt that the page adapter rejects, that times out or that
\* raises any other error is skipped: the call goes on with the next
\* candidate or stage, and no error but not-found reaches the caller.
C8_ErrorsSkipped ==
    \A i \in 1..Len(call.attempts) :
        call.attempts[i].outcome \in {"unsupported", "timeout", "error", "wrong_type"}
        => \/ i < Len(call.attempts)
           \/ pc \in Range(StageOrder) \cup {"FAILED"}

---------------------------------------------------------------------------
(* Properties of the maintenance tool *)

\* the entries <<locator, strategy>> of before that after no longer holds
Removed(before, after) ==
    UNION { { <<l, s>> : s \in { x \in Range(before[l].strategies) :
                                     x \notin Range(StrategiesOf(after, l)) } } :
            l \in DOMAIN before }

\* C9: a run of remove_stale_strategies with days = d removes a strategy
\* exactly when its age, the time of the run minus last_used, exceeds
\* d * 86400 seconds, and removes a locator exactly when none of its
\* strategies is kept.
C9_PruneExact ==
    maint.op = "remove_stale" =>
        \A l \in DOMAIN maint.before :
            LET old == maint.before[l].strategies
                TooOld(s) == maint.at - s.last_used > maint.days * SecondsPerDay
            IN /\ \A i \in 1..Len(old) :
                     <<l, old[i]>> \in Removed(maint.before, db_file.data)
                        <=> TooOld(old[i])
               /\ l \notin DOMAIN db_file.data
                     <=> \A i \in 1..Len(old) : TooOld(old[i])

\* C10: on one store at one time, a run with fewer days removes every
\* strategy that a run with more days removes.
C10_PruneMonotone ==
    maint.op = "remove_stale" =>
        LET removed == Removed(maint.before, db_file.data)
            RemovedWith(d) ==
                Removed(maint.before, RemoveStale(maint.before, d, maint.at))
        IN \A d \in 0..(MaxDays + 1) :
              /\ d < maint.days => removed \subseteq RemovedWith(d)
              /\ maint.days < d => RemovedWith(d) \subseteq removed

\* a run that removed some strategies, more than a run with one more day
\* would have, and kept others
C10_Witness ==
    /\ maint.op = "remove_stale"
    /\ LET removed == Removed(maint.before, db_file.data)
           more == Removed(maint.before,
                           RemoveStale(maint.before, maint.days + 1, maint.at))
       IN /\ more # {}
          /\ more # removed
          /\ db_file.data # EmptyDb

\* the types of the strategies of a list
TypesOf(strategies) == {strategies[i].type : i \in 1..Len(strategies)}

\* C11: after a run of optimize_db every locator has at most one strategy
\* of each type; the one kept was in the list before and no strategy of its
\* type in the list before has a greater last_used; every type the list
\* held before it still holds.
C11_OptimizeKeepsNewest ==
    maint.op = "optimize" =>
        /\ \A l \in DOMAIN db_file.data : l \in DOMAIN maint.before
        /\ \A l \in DOMAIN maint.before :
              LET old == maint.before[l].strategies
                  new == StrategiesOf(db_file.data, l)
              IN /\ \A i, j \in 1..Len(new) : new[i].type = new[j].type => i = j
                 /\ \A i \in 1..Len(new) :
                       /\ new[i] \in Range(old)
                       /\ \A k \in 1..Len(old) :
                             old[k].type = new[i].type
                                => old[k].last_used <= new[i].last_used
                 /\ TypesOf(new) = TypesOf(old)

\* a run on a list in which a type occurs twice, the later entry being the
\* more recently used one
C11_Witness ==
    /\ maint.op = "optimize"
    /\ \E l \in DOMAIN maint.before :
          LET old == maint.before[l].strategies
          IN \E i, j \in 1..Len(old) :
                /\ i < j
                /\ old[i].type = old[j].type
                /\ old[i].last_used < old[j].last_used
                /\ old[j] \in Range(StrategiesOf(db_file.data, l))

\* the run before the last one was of the same operation with the same
\* days, on the store that run left
Repeated ==
    /\ maint.op # "none"
    /\ maint.prior.op = maint.op
    /\ maint.prior.days = maint.days

\* C12 as the specification states it: a run of optimize after a run of
\* optimize, and a run of remove_stale_strategies after a run with the same
\* days, leave the store as they found it.
C12_Idempotent ==
    Repeated => db_file.data = maint.before

\* C12 as the code has it: optimize after optimize leaves the store as it
\* found it; remove_stale_strategies after a run with the same days leaves
\* it as found when the clock reads the same, and otherwise removes only
\* strategies whose last_used the cutoff has passed since the first run.
C12_IdempotentAtOneTime ==
    Repeated =>
        /\ (maint.op = "optimize" \/ maint.prior.at = maint.at)
              => db_file.data = maint.before
        /\ maint.op = "remove_stale" =>
              \A e \in Removed(maint.before, db_file.data) :
                 /\ e[2].last_used > CutoffTime(maint.prior.at, maint.days)
                 /\ e[2].last_used <= CutoffTime(maint.at, maint.days)

\* a second run with the same days at the same time, after a first run
\* that removed some strategies and kept others
C12_Witness ==
    /\ Repeated
    /\ maint.op = "remove_stale"
    /\ maint.prior.at = maint.at
    /\ maint.prior.changed
    /\ maint.before # EmptyDb

---------------------------------------------------------------------------
(* Properties of learning and of ranking *)

\* the attempt a call that ended RESOLVED won with
Winner == call.attempts[Len(call.attempts)]

\* C13: when a call resolves a locator the mapping held no record of, the
\* mapping afterwards holds a record of it with exactly one strategy, and
\* that strategy has the selector of the candidate that won and its type
\* (with the predicted_ label when the predicted stage won).
C13_FirstTimeLearning ==
    (pc = "RESOLVED" /\ call.locator_id \notin DOMAIN call.db0) =>
        LET new == StrategiesOf(locator_db, call.locator_id)
        IN /\ call.locator_id \in DOMAIN locator_db
           /\ Len(new) = 1
           /\ Pair(new[1]) = <<call.result.type, call.result.selector>>
           /\ new[1].selector = Winner.selector
           /\ new[1].type = IF Winner.stage = "TRY_PREDICTED"
                            THEN "predicted_" \o Winner.type
                            ELSE Winner.type

\* empty store, locator id search_box, an input with id search_box on the
\* page, no selector given: the heuristic stage wins with css #search_box
C13_Witness ==
    /\ pc = "RESOLVED"
    /\ call.db0 = EmptyDb
    /\ call.locator_id = "search_box"
    /\ call.selector = ""
    /\ page = PageHealed
    /\ Winner.stage = "TRY_HEURISTIC"
    /\ locator_db["search_box"].strategies = <<Strategy("css", "#search_box", now)>>

---------------------------------------------------------------------------
(* Properties of persistence, with file writes that may fail *)

\* C17: when register_locator or a call that recorded or promoted a
\* strategy returns and its write of the store file succeeded, the file
\* holds the engine's mapping; a call that ends without a success has not
\* changed the mapping.
C17_WriteThrough ==
    /\ (pc \in {"RESOLVED", "REGISTERED"} /\ call.write = "ok") => call.persisted
    /\ pc \in {"FAILED", "ERROR"} => locator_db = call.db0

\* register_locator changed the mapping, its write succeeded, and the
\* write of the call before it had failed
C17_Witness ==
    /\ pc = "REGISTERED"
    /\ call.write = "ok"
    /\ call.db0 # locator_db
    /\ call.db0 # EmptyDb
    /\ db_file = FileOf(locator_db)

\* C18: a call whose attempt succeeded ends RESOLVED whatever became of its
\* writes; the mapping holds the strategy it recorded and the case log the
\* case it trained; and when its write of a file succeeds, that file holds
\* the whole mapping, or the whole log, as it is in memory, changes of
\* earlier calls whose writes failed included.
C18_PersistenceRecovery ==
    /\ (call.attempts # <<>> /\ Winner.outcome = "visible") => pc = "RESOLVED"
    /\ pc = "RESOLVED" =>
          /\ FirstSame(StrategiesOf(locator_db, call.locator_id),
                       Recorded_strategy) # 0
          /\ call.model_write # "" =>
                /\ trained_cases # <<>>
                /\ trained_cases[Len(trained_cases)] =
                      NewCase(call.locator_id, call.result.selector,
                              ActualType(call.result.type), now)
          /\ call.write = "ok" => db_file = FileOf(locator_db)
          /\ call.model_write = "ok" => model_file = ModelFileOf(trained_cases)

\* the call began with both files behind the mapping and the log, whose
\* writes had failed; both its writes succeeded, and the log holds the
\* cases of both calls
C18_Witness ==
    /\ pc = "RESOLVED"
    /\ call.behind
    /\ call.db0 # EmptyDb
    /\ call.model_behind
    /\ call.write = "ok"
    /\ call.model_write = "ok"
    /\ Len(trained_cases) = 2
    /\ model_file = ModelFileOf(trained_cases)

\* C19: an engine constructed on a store file that is missing or cannot be
\* parsed starts with an empty mapping, and its first call finds no stored
\* strategy to try: the store stage makes no attempt and hands over to the
\* next stage.
C19_LoadEmpty ==
    /\ (pc = "NEW" /\ db_file.state # "ok") => locator_db = EmptyDb
    /\ (call.fresh \in {"missing", "corrupt"} /\ call.trace # <<>>) =>
          /\ call.db0 = EmptyDb
          /\ pc # "ERROR"
          /\ \A i \in 1..Len(call.attempts) :
                call.attempts[i].stage # "TRY_STORE"

\* a failed write left the store file unparsable, a new engine was
\* constructed on it, and its first call was resolved by a later stage
C19_Witness ==
    /\ call.fresh = "corrupt"
    /\ ncalls >= 2
    /\ pc = "RESOLVED"
    /\ Len(call.trace) >= 2

---------------------------------------------------------------------------
(* Properties of the predictor *)

\* the candidate predict makes of a case of the log
CaseCandidate(case) ==
    [selector |-> case.selector, type |-> case.selector_type, score |-> 75000]

\* C14 as the specification states it: for every entry of the log, the
\* result of predict holds a candidate with the entry's selector and
\* selector type at the trained-case score.
C14_AllCasesPredicted ==
    predictor_call.op = "predict" =>
        \A i \in 1..Len(predictor_call.cases) :
            \E j \in 1..Len(predictor_call.result) :
                predictor_call.result[j] = CaseCandidate(predictor_call.cases[i])

\* C14, amended: for each of the first nine entries of the log, the result
\* of predict holds the entry's selector and selector type at the
\* trained-case score, right after the css guess and in the order of the
\* log, whatever the locator id.
C14_FirstNinePredicted ==
    predictor_call.op = "predict" =>
        \A i \in 1..Len(predictor_call.cases) :
            i <= 9 =>
                /\ i + 1 <= Len(predictor_call.result)
                /\ predictor_call.result[i + 1] =
                      CaseCandidate(predictor_call.cases[i])

\* predict on a log of ten or more entries whose tenth entry differs in
\* selector from the nine before it
C14_Witness ==
    /\ predictor_call.op = "predict"
    /\ Len(predictor_call.cases) >= 10
    /\ \A i \in 1..9 :
          predictor_call.cases[i].selector # predictor_call.cases[10].selector
    /\ predictor_call.result[10] = CaseCandidate(predictor_call.cases[9])

\* C15: predict returns between one and ten candidates, in descending order
\* of score, candidates of equal score in the order they were generated in,
\* and the css guess #<locator_id> among them.
C15_PredictRanked ==
    predictor_call.op = "predict" =>
        LET result == predictor_call.result
            generated == Predictions(predictor_call.locator_id,
                                     Hints(predictor_call.locator_id),
                                     predictor_call.cases)
            guess == [selector |-> "#" \o predictor_call.locator_id,
                      type |-> "css", score |-> 80000]
        IN /\ Len(result) \in 1..10
           /\ \A j \in 1..(Len(result) - 1) : result[j].score >= result[j + 1].score
           /\ \A sc \in {generated[k].score : k \in 1..Len(generated)} :
                 LET ofResult == SelectSeq(result, LAMBDA x : x.score = sc)
                     ofGenerated == SelectSeq(generated, LAMBDA x : x.score = sc)
                 IN /\ Len(ofResult) <= Len(ofGenerated)
                    /\ ofResult = SubSeq(ofGenerated, 1, Len(ofResult))
           /\ \E j \in 1..Len(result) : result[j] = guess

\* predict whose result is cut to ten and holds two candidates of equal
\* score and different selectors next to each other
C15_Witness ==
    /\ predictor_call.op = "predict"
    /\ Len(predictor_call.result) = 10
    /\ Len(Predictions(predictor_call.locator_id,
                       Hints(predictor_call.locator_id),
                       predictor_call.cases)) > 10
    /\ \E j \in 1..9 :
          /\ predictor_call.result[j].score = predictor_call.result[j + 1].score
          /\ predictor_call.result[j].selector # predictor_call.result[j + 1].selector

\* C20: train leaves the log as it was before with one entry more at the
\* end, made of the locator id, the selector, the selector type and the
\* time of the call; predict leaves the log as it is; and when the write of
\* train succeeds the model file holds the whole log.
C20_AppendOnly ==
    /\ predictor_call.op = "train" =>
          /\ trained_cases =
                Append(predictor_call.cases,
                       NewCase(predictor_call.locator_id, predictor_call.selector,
                               predictor_call.selector_type, predictor_call.at))
          /\ predictor_call.write = "ok" =>
                model_file = ModelFileOf(trained_cases)
    /\ predictor_call.op = "predict" => trained_cases = predictor_call.cases

\* train of a selector the log already holds for the locator, on a log
\* whose last write had failed, with a write that succeeds
C20_Witness ==
    /\ predictor_call.op = "train"
    /\ predictor_call.write = "ok"
    /\ Len(predictor_call.cases) >= 2
    /\ \E i \in 1..Len(predictor_call.cases) :
          /\ predictor_call.cases[i].locator_id = predictor_call.locator_id
          /\ predictor_call.cases[i].selector = predictor_call.selector
    /\ Len(trained_cases) = Len(predictor_call.cases) + 1
    /\ model_file = ModelFileOf(trained_cases)

---------------------------------------------------------------------------
(* Properties of two instances on one store file *)

\* the (type, selector) pairs the strategies of locator_id have in db
PairsOf(db, locator_id) ==
    {Pair(StrategiesOf(db, locator_id)[i]) :
        i \in 1..Len(StrategiesOf(db, locator_id))}

\* the strategies the instance at rest holds and the one at work does not
OnlyAtRest ==
    {<<l, p>> \in LocatorIds \X UNION {PairsOf(peer.locator_db, l) : l \in LocatorIds} :
        /\ p \in PairsOf(peer.locator_db, l)
        /\ p \notin PairsOf(locator_db, l)}

\* C21: when an instance has saved a success, the store file is the whole
\* mapping of that instance and of no other: a strategy that only the
\* other instance holds is not in the file, whether or not that instance
\* had saved it there before.
C21_LastWriterWins ==
    (pc = "RESOLVED" /\ peer.started) =>
        /\ db_file = FileOf(locator_db)
        /\ \A lp \in OnlyAtRest : lp[2] \notin PairsOf(db_file.data, lp[1])

\* both instances loaded the same file; the one now at rest saved a
\* success, then the one at work saved another, and the file has lost the
\* strategy of the first
C21_Witness ==
    /\ pc = "RESOLVED"
    /\ peer.started
    /\ peer.saved
    /\ \E lp \in OnlyAtRest : lp[2] \in PairsOf(call.file0.data, lp[1])
    /\ db_file = FileOf(locator_db)

---------------------------------------------------------------------------
(* Properties of the store after a call *)

C24_UseRefreshesLastUsed ==
    pc = "RESOLVED" =>
        LET list == StrategiesOf(locator_db, call.locator_id)
            k == FirstSame(list, Recorded_strategy)
        IN /\ k # 0
           /\ list[k].last_used = now

\* C23: when a call that a stage after TRY_STORE resolved is followed by a
\* call for the same locator on the same engine and the same page, the
\* second call is resolved in TRY_STORE by the strategy the first recorded,
\* and enters no later stage.
C23_LearnedWinsNext ==
    (/\ prev.valid
     /\ prev.pc = "RESOLVED"
     /\ prev.trace # <<"TRY_STORE">>
     /\ prev.locator_id = call.locator_id
     /\ pc \in Done) =>
        /\ pc = "RESOLVED"
        /\ call.trace = <<"TRY_STORE">>
        /\ call.result = prev.result

\* C25: in the step in which a call fails with the not-found error, the
\* mapping, the store file, the log of trained cases and the model file
\* are what they were when the call began.
C25_FailureLeavesNoTrace ==
    [][(pc' = "FAILED" /\ pc # "FAILED") =>
          /\ locator_db' = call'.db0
          /\ db_file' = call'.file0
          /\ trained_cases' = call'.cases0
          /\ model_file' = call'.model0]_vars

\* a call for a locator with two or more stored strategies, on an engine
\* with a predictor, has failed after all four stages
C25_Witness ==
    /\ pc = "FAILED"
    /\ predictor
    /\ Len(call.trace) = 4
    /\ Len(StrategiesOf(locator_db, call.locator_id)) >= 2
    /\ call.file0.state = "ok"
    /\ locator_db = call.db0

---------------------------------------------------------------------------
(* Properties of the heuristic and the predicted stage *)

\* C28: the element a call returns from TRY_HEURISTIC or TRY_PREDICTED is
\* visible on the page and passes the check of its tag and type against the
\* element types guessed from the locator id.
C28_ReturnedIsCompatible ==
    (pc = "RESOLVED" /\ Winner.stage \in {"TRY_HEURISTIC", "TRY_PREDICTED"}) =>
        LET element == CreateElementByType(Winner.type, Winner.selector)
        IN /\ element \in DOMAIN page.live
           /\ VerifyElementInteractionType(page.live[element],
                                           GuessElementTypeFromId(call.locator_id))

\* C29: on an engine with a predictor, a call that TRY_HEURISTIC or
\* TRY_PREDICTED resolved leaves the log as it was when the call began with
\* one case more at the end, of the locator, the selector that won and its
\* type without the predicted_ prefix; a call that TRY_STORE resolved, or
\* that did not resolve, leaves the log as it was.
C29_OneCasePerHealing ==
    (predictor /\ pc \in Done) =>
        /\ (pc = "RESOLVED" /\ Winner.stage \in {"TRY_HEURISTIC", "TRY_PREDICTED"}) =>
              trained_cases =
                 Append(call.cases0,
                        NewCase(call.locator_id, Winner.selector, Winner.type, now))
        /\ (pc # "RESOLVED" \/ Winner.stage = "TRY_STORE") =>
              trained_cases = call.cases0

\* the predicted stage won with a css selector on a log that held a case
\* already: the strategy is stored as predicted_css and the case as css
C29_Witness ==
    /\ predictor
    /\ pc = "RESOLVED"
    /\ Winner.stage = "TRY_PREDICTED"
    /\ call.result.type = "predicted_css"
    /\ call.cases0 # <<>>
    /\ Len(trained_cases) = Len(call.cases0) + 1
    /\ trained_cases[Len(trained_cases)].selector_type = "css"

\* the attempts the heuristic stage of the call has made, in order
HeuristicAttempts ==
    SelectSeq(call.attempts, LAMBDA a : a.stage = "TRY_HEURISTIC")

\* the candidates of the call's page in generation order (text-based, then
\* attribute-based, then form-element), with the scores the type pass
\* gives them
GeneratedCandidates ==
    FilterElementsByType(PossibleElementsOf[page][call.locator_id],
                         GuessElementTypeFromId(call.locator_id))

PredictedAttempts ==
    SelectSeq(call.attempts, LAMBDA a : a.stage = "TRY_PREDICTED")

\* what predict returns to the call: nothing is trained between the entry
\* of the call and its predicted stage
CallPredictions ==
    Predict(call.locator_id, Hints(call.locator_id), call.cases0)

\* the predicted stage without the number of attempts it may make: nothing
\* is asked of the predictor or attempted when none is configured, the
\* attempts follow the rank order of the predictions, all but the last
\* failed, a visible one is recorded as predicted_<type> and returned, and
\* the call fails when none is
PredictedStageRuns(most) ==
    LET tried == PredictedAttempts
        n == Len(tried)
    IN IF ~predictor
       THEN n = 0 /\ call.predicts = 0 /\ pc = "FAILED"
       ELSE /\ n <= Len(CallPredictions)
            /\ \A i \in 1..n :
                  i <= Len(CallPredictions) =>
                     /\ tried[i].type = CallPredictions[i].type
                     /\ tried[i].selector = CallPredictions[i].selector
            /\ \A i \in 1..(n - 1) : tried[i].outcome # "visible"
            /\ IF n > 0 /\ tried[n].outcome = "visible"
               THEN /\ pc = "RESOLVED"
                    /\ call.result = [type |-> "predicted_" \o tried[n].type,
                                      selector |-> tried[n].selector]
                    /\ <<"predicted_" \o tried[n].type, tried[n].selector>>
                          \in PairsOf(locator_db, call.locator_id)
               ELSE /\ pc = "FAILED"
                    /\ n = (IF Len(CallPredictions) < most
                            THEN Len(CallPredictions) ELSE most)

\* C27 as the specification states it: TRY_PREDICTED does something only
\* when a predictor is configured, attempts at most the top 5 of the
\* ranked predictions in rank order, stores the winner as predicted_<type>,
\* and the call ends FAILED when none of the attempted ones succeeds.
C27_TopFivePredicted ==
    "TRY_PREDICTED" \in Range(call.trace) =>
        /\ Len(PredictedAttempts) <= 5
        /\ PredictedStageRuns(5)

\* C27 as the code has it: TRY_PREDICTED does something only when a
\* predictor is configured and attempts, in rank order, every candidate
\* predict returned (at most 10) until one is visible; the winner is
\* stored as predicted_<type>, and the call ends FAILED when none of them
\* succeeds.
C27_AllPredictedTried ==
    "TRY_PREDICTED" \in Range(call.trace) =>
        /\ Len(PredictedAttempts) <= 10
        /\ PredictedStageRuns(10)

\* the predicted stage went on after five predictions had failed
C27_Witness ==
    /\ predictor
    /\ Len(PredictedAttempts) > 5
    /\ \A i \in 1..5 : PredictedAttempts[i].outcome # "visible"

\* the attempts the original-selector stage of the call has made
OriginalAttempts ==
    SelectSeq(call.attempts, LAMBDA a : a.stage = "TRY_ORIGINAL")

\* C30: TRY_ORIGINAL comes after a TRY_STORE none of whose attempts
\* succeeded and attempts the caller's selector exactly once, as css; when
\* the attempt succeeds exactly the strategy (css, selector) is recorded for
\* the locator and returned; when no selector was given the stage attempts
\* nothing, changes nothing, and TRY_HEURISTIC is next.
C30_OriginalOnce ==
    "TRY_ORIGINAL" \in Range(call.trace) =>
        /\ SubSeq(call.trace, 1, 2) = <<"TRY_STORE", "TRY_ORIGINAL">>
        /\ \A i \in 1..Len(call.attempts) :
              call.attempts[i].stage = "TRY_STORE" =>
                 call.attempts[i].outcome # "visible"
        /\ IF call.selector = ""
           THEN OriginalAttempts = <<>>
           ELSE OriginalAttempts =
                   <<Attempt("TRY_ORIGINAL", "css", call.selector,
                             WaitFor(page, Locator(call.selector)))>>
        /\ call.trace = <<"TRY_STORE", "TRY_ORIGINAL">> =>
              IF OriginalAttempts # <<>> /\ OriginalAttempts[1].outcome = "visible"
              THEN /\ pc = "RESOLVED"
                   /\ call.result = [type |-> "css", selector |-> call.selector]
                   /\ locator_db =
                         AddStrategy(call.db0, call.locator_id,
                                     Strategy("css", call.selector, now))
              ELSE /\ pc = "TRY_HEURISTIC"
                   /\ locator_db = call.db0
                   /\ db_file = call.file0
                   /\ trained_cases = call.cases0
                   /\ model_file = call.model0

\* the caller's selector resolved a locator the store could not
C30_Witness ==
    /\ pc = "RESOLVED"
    /\ call.trace = <<"TRY_STORE", "TRY_ORIGINAL">>
    /\ call.selector # ""
    /\ call.result = [type |-> "css", selector |-> call.selector]

---------------------------------------------------------------------------
(* Properties of the hint tokens, the candidate generator and the type    *)
(* pass *)

\* the hints of the predict call that are longer than 3 characters
PredictedHints ==
    SelectSeq(Hints(predictor_call.locator_id), LAMBDA h : Len(h) > 3)

TextCandidate(hint) == [selector |-> hint, type |-> "text", score |-> 70000]

XPathCandidate(hint) ==
    [selector |-> "//*[contains(text(), '" \o hint \o "')]",
     type |-> "xpath", score |-> 60000]

\* C31 as the specification states it: for every hint token longer than 3
\* characters the list predict returns holds the text candidate of the
\* token and the XPath contains-text candidate of the token.
C31_EveryTokenPredicted ==
    predictor_call.op = "predict" =>
        \A k \in 1..Len(PredictedHints) :
            /\ \E j \in 1..Len(predictor_call.result) :
                  predictor_call.result[j] = TextCandidate(PredictedHints[k])
            /\ \E j \in 1..Len(predictor_call.result) :
                  predictor_call.result[j] = XPathCandidate(PredictedHints[k])

\* C31 as the code has it: the text candidates of the hint tokens longer
\* than 3 characters come after the css guess and the candidates of the
\* log, the XPath candidates after all the text candidates, each in the
\* order of the tokens, and a candidate is returned exactly when its place
\* is among the first ten; shorter tokens give no candidate.
C31_TokensPredictedWithinTen ==
    predictor_call.op = "predict" =>
        LET result == predictor_call.result
            c == Len(predictor_call.cases)
            n == Len(PredictedHints)
            hints == Hints(predictor_call.locator_id)
        IN /\ Len(result) = (IF 1 + c + 2 * n < 10 THEN 1 + c + 2 * n ELSE 10)
           /\ \A k \in 1..n :
                 /\ 1 + c + k <= 10 =>
                       /\ 1 + c + k <= Len(result)
                       /\ result[1 + c + k] = TextCandidate(PredictedHints[k])
                 /\ 1 + c + k > 10 =>
                       \A j \in 1..Len(result) :
                           result[j] # TextCandidate(PredictedHints[k])
                 /\ 1 + c + n + k <= 10 =>
                       /\ 1 + c + n + k <= Len(result)
                       /\ result[1 + c + n + k] = XPathCandidate(PredictedHints[k])
                 /\ 1 + c + n + k > 10 =>
                       \A j \in 1..Len(result) :
                           result[j] # XPathCandidate(PredictedHints[k])
           /\ \A h \in 1..Len(hints) :
                 Len(hints[h]) <= 3 =>
                    \A j \in 1..Len(result) :
                        /\ result[j] # TextCandidate(hints[h])
                        /\ result[j] # XPathCandidate(hints[h])

\* predict returned the text candidate of a token and cut its XPath
\* candidate off
C31_Witness ==
    /\ predictor_call.op = "predict"
    /\ \E k \in 1..Len(PredictedHints) :
          /\ \E j \in 1..Len(predictor_call.result) :
                predictor_call.result[j] = TextCandidate(PredictedHints[k])
          /\ \A j \in 1..Len(predictor_call.result) :
                predictor_call.result[j] # XPathCandidate(PredictedHints[k])

\* the hint tokens of the call
CallHints == Hints(call.locator_id)

\* the tokens longer than 3 characters
LongTokens(hints) == SelectSeq(hints, LAMBDA h : Len(h) > 3)

\* the tokens longer than 3 characters and the keyword of 3 characters the
\* text-based generator looks for among all the hints
KeyTokens(hints) == SelectSeq(hints, LAMBDA h : Len(h) > 3 \/ h = "ara")

\* C32 as the specification states it: only the tokens of the locator id
\* longer than 3 characters reach the generator, so that its output is the
\* one it gives for these tokens alone, and is the same for every locator
\* id with the same tokens longer than 3 characters on the same snapshot.
C32_OnlyLongTokens ==
    "TRY_HEURISTIC" \in Range(call.trace) =>
        /\ call.possible = PossibleElements(page.dom, LongTokens(CallHints))
        /\ \A l \in GenLocators :
              LongTokens(Hints(l)) = LongTokens(CallHints) =>
                 PossibleElements(page.dom, Hints(l)) = call.possible

\* C32 as the code has it: every token of the locator id split on '_'
\* reaches the generator; the sub-generators pass over tokens of 3
\* characters or less when they match text and attributes, and the keyword
\* test of the text-based one looks at all tokens, so that the output is
\* the one for the tokens longer than 3 characters and the token "ara",
\* and is the same for locator ids that agree on these.
C32_LongTokensAndKeyword ==
    "TRY_HEURISTIC" \in Range(call.trace) =>
        /\ call.possible = PossibleElements(page.dom, KeyTokens(CallHints))
        /\ \A l \in GenLocators :
              KeyTokens(Hints(l)) = KeyTokens(CallHints) =>
                 PossibleElements(page.dom, Hints(l)) = call.possible

\* a token of 3 characters gave the call candidates that the longer
\* tokens alone do not give, and other short tokens were passed over
C32_Witness ==
    /\ "TRY_HEURISTIC" \in Range(call.trace)
    /\ Len(KeyTokens(CallHints)) < Len(CallHints)
    /\ call.possible # PossibleElements(page.dom, LongTokens(CallHints))

\* the text of the element contains one of the hints
TextHas(tag, hints) ==
    \E i \in 1..Len(hints) : Contains(Lower(tag.text), hints[i])

\* the id, class, name or placeholder of the element contains one of the
\* hints
AttributeHas(tag, hints) ==
    \E i \in 1..Len(hints) :
        \/ Contains(Lower(tag.id), hints[i])
        \/ Contains(Lower(Join(tag.class, " ")), hints[i])
        \/ Contains(Lower(tag.nameattr), hints[i])
        \/ Contains(Lower(tag.placeholder), hints[i])

\* the selectors the sub-generators look for whatever the element has to
\* do with the hints
FixedSelectors ==
    {"input[type='search']", "input[type='text']", "input[placeholder]",
     ".search-input", "input.search", "input[name='search']", "input[name='q']",
     "[placeholder]", "button", "input[type='submit']", ".search-button",
     "button.search", "[placeholder*='ara']", "textarea", "select"}

\* a candidate made of a fixed selector the element answers to
FixedCandidate(c) ==
    c.type = "css" /\ c.selector \in FixedSelectors /\ MatchesCss(c.element, c.selector)

\* C33 as the specification states it: every candidate of the text-based
\* sub-generator refers to an element whose text contains a hint token,
\* every candidate of the attribute-based one to an element whose id,
\* class, name or placeholder contains a hint token, and on a snapshot
\* where no element's text or attributes contain a hint token the
\* generator emits nothing and TRY_HEURISTIC fails.
C33_CandidatesMatchHints ==
    "TRY_HEURISTIC" \in Range(call.trace) =>
        /\ \A c \in Range(FindTextBasedElements(page.dom, CallHints)) :
              TextHas(c.element, CallHints)
        /\ \A c \in Range(FindAttributeBasedElements(page.dom, CallHints)) :
              AttributeHas(c.element, CallHints)
        /\ (\A i \in 1..Len(page.dom) :
               ~TextHas(page.dom[i], CallHints)
               /\ ~AttributeHas(page.dom[i], CallHints)
               /\ \A h \in 1..Len(CallHints) :
                     ~Contains(Lower(page.dom[i].type), CallHints[h]))
           => call.possible = <<>> /\ pc # "RESOLVED"

\* C33 as the code has it: a text candidate of the text-based
\* sub-generator refers to an element whose text contains a hint token
\* longer than 3 characters, an id, class, name or placeholder candidate of
\* the attribute-based one to an element whose attribute of that kind
\* contains such a token; every other candidate of the two is a fixed form
\* selector the element answers to, whatever the hints; the generator
\* emits nothing and TRY_HEURISTIC fails on a snapshot where no element
\* answers to a fixed selector and no element's text or attributes contain
\* a token longer than 3 characters.
C33_CandidatesMatchHintsOrForm ==
    "TRY_HEURISTIC" \in Range(call.trace) =>
        LET long == LongTokens(CallHints)
            text_based == FindTextBasedElements(page.dom, CallHints)
            attribute_based == FindAttributeBasedElements(page.dom, CallHints)
        IN /\ SubSeq(call.possible, 1, Len(text_based) + Len(attribute_based)) =
                 text_based \o attribute_based
           /\ \A c \in Range(text_based) :
                 IF c.type = "text" THEN TextHas(c.element, long)
                 ELSE FixedCandidate(c)
           /\ \A c \in Range(attribute_based) :
                 \/ FixedCandidate(c) /\ long # <<>>
                 \/ c.type = "css" /\ AttributeHas(c.element, long)
           /\ (\A i \in 1..Len(page.dom) :
                  /\ ~TextHas(page.dom[i], long)
                  /\ ~AttributeHas(page.dom[i], long)
                  /\ \A h \in 1..Len(long) :
                        ~Contains(Lower(page.dom[i].type), long[h])
                  /\ \A sel \in FixedSelectors : ~MatchesCss(page.dom[i], sel))
              => call.possible = <<>> /\ pc # "RESOLVED"

\* the stage resolved the locator with a fixed form selector although
\* nothing in the snapshot contains any of the hints
C33_Witness ==
    /\ pc = "RESOLVED"
    /\ call.trace[Len(call.trace)] = "TRY_HEURISTIC"
    /\ call.result.selector \in FixedSelectors
    /\ \A i \in 1..Len(page.dom) :
          ~TextHas(page.dom[i], CallHints) /\ ~AttributeHas(page.dom[i], CallHints)

\* the element types an element of the snapshot is of
ActualKinds(tag) ==
    IF tag.name = "input"
    THEN {"input"}
         \cup (IF Lower(tag.type) = "checkbox" THEN {"checkbox"} ELSE {})
         \cup (IF Lower(tag.type) \in {"button", "submit"} THEN {"button"} ELSE {})
    ELSE IF tag.name = "textarea" THEN {"input"}
    ELSE IF tag.name = "button" THEN {"button"}
    ELSE IF tag.name = "a" THEN {"link"}
    ELSE IF tag.name = "select" THEN {"select"}
    ELSE {}

\* the types the keywords of the call's locator id imply
CallTypes == GuessElementTypeFromId(call.locator_id)

\* the score the type pass is stated to give: the bonus when the element
\* is of an implied type, half the score when a type is implied and the
\* element is of none of the implied types, the cap at 0.99 in every case
StatedScore(item, element_type_hints) ==
    LET implied == Range(element_type_hints) \ {"element"}
    IN IF implied = {} THEN Cap(item.score)
       ELSE IF ActualKinds(item.element) \cap implied # {}
       THEN Cap(Add02(item.score))
       ELSE Cap(Half(item.score))

\* C34: the type pass gives every candidate min(0.99, s'), s' being the
\* base score plus 0.2 when the element's tag or role is a type the locator
\* id implies, half the base score when the id implies a type (input,
\* button, link, select, checkbox) and the element is of another, and the
\* base score itself when the id implies no type.
C34_TypePass ==
    "TRY_HEURISTIC" \in Range(call.trace) =>
        /\ call.ranked = SortByScore(FilterElementsByType(call.possible, CallTypes))
        /\ \A i \in 1..Len(call.possible) :
              FilterElementsByType(call.possible, CallTypes)[i].score =
                 StatedScore(call.possible[i], CallTypes)

\* C35: every candidate TRY_HEURISTIC sorts and attempts has, after the
\* type pass, a score from 0 to 0.99.
C35_ScoreRange ==
    "TRY_HEURISTIC" \in Range(call.trace) =>
        /\ Len(call.ranked) = Len(call.possible)
        /\ \A i \in 1..Len(call.ranked) :
              call.ranked[i].score >= 0 /\ call.ranked[i].score <= 99000
        /\ \A i \in 1..Len(call.attempts) :
              call.attempts[i].stage = "TRY_HEURISTIC" =>
                 \E k \in 1..Len(call.ranked) :
                    /\ call.ranked[k].type = call.attempts[i].type
                    /\ call.ranked[k].selector = call.attempts[i].selector
                    /\ call.ranked[k].score <= 99000

\* the stage attempted a candidate whose base score with the bonus is
\* above 0.99 and was cut down to it
C35_Witness ==
    /\ "TRY_HEURISTIC" \in Range(call.trace)
    /\ HeuristicAttempts # <<>>
    /\ call.ranked # <<>>
    /\ call.ranked[1].score = 99000
    /\ \E i \in 1..Len(call.possible) :
          /\ call.possible[i].selector = call.ranked[1].selector
          /\ call.possible[i].score + 20000 > 99000

\* the candidates the sub-generators emit for one hint because the hint is
\* in an attribute or in the text of an element
HintMatches(dom, hint) ==
    AttributeMatches(dom, hint)
    \o Concat([i \in 1..Len(dom) |->
          IF dom[i].name \in {"input", "textarea", "select"}
          THEN FormInputMatches(dom[i], hint) ELSE <<>>])
    \o Concat([i \in 1..Len(dom) |->
          IF dom[i].name \in {"button", "a"}
          THEN FormButtonMatches(dom[i], hint) ELSE <<>>])
    \o TextMatches(dom, hint)

\* the match kind of such a candidate: 5 id equal to the hint, 4 id
\* containing it, 3 name or placeholder containing it, 2 class containing
\* it, 1 text containing it, 0 any other
MatchKind(c, hint) ==
    IF c.type = "text" THEN 1
    ELSE IF StartsWith(c.selector, "#")
    THEN (IF Lower(c.element.id) = hint THEN 5 ELSE 4)
    ELSE IF Contains(c.selector, "[name='") \/ Contains(c.selector, "[placeholder*='")
    THEN 3
    ELSE IF StartsWith(c.selector, ".") THEN 2
    ELSE 0

\* the candidates of the call's snapshot with the hint they match
CallMatches ==
    UNION {{<<c, h>> : c \in Range(HintMatches(page.dom, h))} :
              h \in Range(LongTokens(CallHints))}

\* C36 as the specification states it: the base scores descend strictly
\* with the match kind, id equal to the token, id containing it, name or
\* placeholder containing it, class containing it, text containing it, and
\* no candidate of a lower kind has a base score equal to or above that of
\* a candidate of a higher kind.
C36_ScoresDescendByKind ==
    "TRY_HEURISTIC" \in Range(call.trace) =>
        \A m, n \in CallMatches :
            (MatchKind(m[1], m[2]) > MatchKind(n[1], n[2])
                /\ MatchKind(n[1], n[2]) > 0)
            => m[1].score > n[1].score

\* the element's name, or text, is the hint itself
ExactMatch(c, hint) ==
    IF c.type = "text" THEN Lower(c.element.text) = hint
    ELSE IF Contains(c.selector, "[name='") THEN Lower(c.element.nameattr) = hint
    ELSE FALSE

\* C36 as the code has it: every base score is one of the fixed constants
\* of its match kind (id 0.9, or 0.95 from the form-element generator when
\* the id is the token; name or placeholder 0.85 to 0.88, or 0.92 when the
\* name is the token; class 0.8; text 0.7 to 0.8, or 0.85 when the text of
\* a button or link is the token); among the candidates that contain the
\* token without being equal to it a higher kind never scores below a
\* lower one, and id, name or placeholder, and class descend strictly.
C36_ScoresByKindAndGenerator ==
    "TRY_HEURISTIC" \in Range(call.trace) =>
        /\ \A m \in CallMatches :
              /\ m[1] \in Range(call.possible)
              /\ LET k == MatchKind(m[1], m[2])
                     sc == m[1].score
                 IN /\ k = 5 => sc \in {90000, 95000}
                    /\ k = 4 => sc = 90000
                    /\ k = 3 => IF ExactMatch(m[1], m[2])
                                THEN sc \in {85000, 92000}
                                ELSE sc \in {85000, 85001, 88000}
                    /\ k = 2 => sc = 80000
                    /\ k = 1 => IF ExactMatch(m[1], m[2])
                                THEN sc \in {70000, 80000, 85000}
                                ELSE sc \in {70000, 75000, 80000}
        /\ \A m, n \in CallMatches :
              LET km == MatchKind(m[1], m[2])
                  kn == MatchKind(n[1], n[2])
              IN (km > kn /\ kn > 0 /\ ~ExactMatch(m[1], m[2])
                     /\ ~ExactMatch(n[1], n[2]))
                 => /\ m[1].score >= n[1].score
                    /\ kn >= 2 /\ km <= 4 => m[1].score > n[1].score

\* a name that is the token scored above an id that contains the token
C36_Witness ==
    /\ "TRY_HEURISTIC" \in Range(call.trace)
    /\ \E m, n \in CallMatches :
          /\ MatchKind(m[1], m[2]) = 4
          /\ MatchKind(n[1], n[2]) = 3
          /\ ExactMatch(n[1], n[2])
          /\ n[1].score > m[1].score

---------------------------------------------------------------------------
(* Termination of a call *)

\* the attempts a stage of the call has made
AttemptsOf(stage) == SelectSeq(call.attempts, LAMBDA a : a.stage = stage)

\* no stage has made more attempts than it has candidates: one for each
\* stored strategy, one for the original selector, one for each ranked
\* candidate and one for each prediction
AttemptedOnce ==
    /\ Len(AttemptsOf("TRY_STORE")) <= Len(StrategiesOf(call.db0, call.locator_id))
    /\ Len(AttemptsOf("TRY_ORIGINAL")) <= 1
    /\ Len(AttemptsOf("TRY_HEURISTIC")) <= Len(call.ranked)
    /\ Len(AttemptsOf("TRY_PREDICTED")) <= Len(CallPredictions)

\* C37: every call ends RESOLVED or FAILED after finitely many attempts: a
\* call that has begun reaches one of the two, and on the way each stored
\* strategy, the original selector and each ranked or predicted candidate
\* is attempted at most once.
C37_Terminates ==
    /\ []AttemptedOnce
    /\ \A n \in 1..MaxCalls :
          (ncalls = n /\ pc = "TRY_STORE")
             ~> (ncalls = n /\ pc \in {"RESOLVED", "FAILED"})

---------------------------------------------------------------------------
(* The order optimize_db leaves *)

\* index of the first entry of the list equal to s, 0 if none
PlaceOf(strategies, s) ==
    IF \E k \in 1..Len(strategies) : strategies[k] = s
    THEN CHOOSE k \in 1..Len(strategies) :
            /\ strategies[k] = s
            /\ \A m \in 1..(k - 1) : strategies[m] # s
    ELSE 0

\* C38 as the specification states it: of two strategies of a locator that
\* a run of optimize_db both keeps, the one that came earlier in the list
\* before the run comes earlier after it.
C38_OrderKept ==
    maint.op = "optimize" =>
        \A l \in DOMAIN maint.before :
           LET old == maint.before[l].strategies
               new == StrategiesOf(db_file.data, l)
           IN \A i, j \in 1..Len(new) :
                 i < j => PlaceOf(old, new[i]) < PlaceOf(old, new[j])

\* C38 as the code has it: the strategies a run of optimize_db keeps stand
\* in descending order of last_used, whatever their order before; two kept
\* strategies with the same last_used stand in the order they had before.
C38_OrderByLastUsed ==
    maint.op = "optimize" =>
        \A l \in DOMAIN maint.before :
           LET old == maint.before[l].strategies
               new == StrategiesOf(db_file.data, l)
           IN \A i, j \in 1..Len(new) :
                 i < j =>
                    /\ new[i].last_used >= new[j].last_used
                    /\ new[i].last_used = new[j].last_used
                          => PlaceOf(old, new[i]) < PlaceOf(old, new[j])

\* a run that kept the strategy at index 0 and a strategy behind it used
\* more recently
C38_Witness ==
    /\ maint.op = "optimize"
    /\ \E l \in DOMAIN maint.before :
          LET old == maint.before[l].strategies
              new == StrategiesOf(db_file.data, l)
          IN /\ Len(old) >= 2
             /\ Len(new) >= 2
             /\ old[1] \in Range(new)
             /\ \E k \in 2..Len(old) :
                   /\ old[k] \in Range(new)
                   /\ old[k].last_used > old[1].last_used

=============================================================================
